---- MODULE Spec2Model ----
(***************************************************************************)
(* Control-plane model of mosm.cloud: the billing / device-limit           *)
(* enforcement gate with its audit log, the device heartbeat handler, the  *)
(* location service, and the rollout orchestrator.                         *)
(***************************************************************************)
EXTENDS Integers, Sequences, FiniteSets, TLC

(***************************************************************************)
(* Bounds of the model                                                     *)
(***************************************************************************)
MaxLog == 6          \* enforcement-log entries a run of the pairing service may write
MaxGateLog == 2      \* enforcement-log entries a run of the gate alone may write
MaxTime == 2         \* the clock runs 1..MaxTime
MaxRegTime == 3      \* the registry's clock runs 1..MaxRegTime
MaxFailures == 6     \* most consecutive heartbeat failures of the client
MaxCount == 2        \* largest device count and device limit passed to the gate

Devices == {"d1", "d2"}
LocIds == {"L1"}

(***************************************************************************)
(* Program constants                                                       *)
(***************************************************************************)
BillingStatuses == {"unpaid", "paid", "past_due", "canceled", "trialing"}
ACTIVE_BILLING_STATUSES == {"paid", "trialing"}
PlanTiers == {"starter", "pro", "enterprise"}
PLAN_DEVICE_LIMITS == [starter |-> 3, pro |-> 25, enterprise |-> 999]
\* plan.max_devices is a number or 'unlimited'; the model writes 'unlimited' as -1
unlimited == -1
MaxDevicesValues == {1, unlimited}
None == "none"

VARIABLES
    account,          \* the organization row: billing_status, plan.max_devices, device_count
    locations,        \* location id -> location row (exists = FALSE: no such row)
    devices,          \* device id -> location it is paired at, or None while only registered
    enforcementLogs,  \* the append-only enforcement log
    deviceLastSeen,   \* heartbeat handler's last-seen map (0 = no entry)
    now,              \* the clock
    ret,              \* the last call of the pairing side and what it returned
    rollouts,         \* rollout id -> row of table rollouts (exists = FALSE: no row)
    executions,       \* <<rollout id, location>> -> row of table rollout_executions
    rret,             \* the last call of the rollouts service and what it returned
    pc,               \* location -> where its concurrent updateExecutionStatus call stands
    seen,             \* location -> the statuses its call's completion check selected
    registry,         \* the rows of table service_registry
    shadow,           \* the registry as it would be had no sweep ever run
    hret,             \* the last call of the registry service and what it returned
    hb,               \* caller -> the row its heartbeat has built and not yet upserted
    attempt,          \* device -> where its pairing attempt stands and the count it read
    client,           \* the fields of one MOSMHeartbeatClient
    cret,             \* the client's last call and what came of it
    configClient,     \* one MOSMConfigClient: its memory cache and the localStorage
    lastFetched,      \* cache key -> the data of the last successful fetch (history)
    gret,             \* the config client's last read and what it returned
    event_log,        \* the rows of table event_log, in insertion order
    eret              \* the last POST /events request and its response

enfVars == <<account, locations, devices, enforcementLogs, deviceLastSeen, ret>>
rolVars == <<rollouts, executions, rret>>
concVars == <<pc, seen>>
regVars == <<registry, shadow, hret, hb>>
raceVars == <<attempt>>
cliVars == <<client, cret>>
cfgVars == <<configClient, lastFetched, gret>>
evtVars == <<event_log, eret>>
vars == <<enfVars, rolVars, concVars, regVars, raceVars, cliVars, cfgVars, evtVars, now>>

(***************************************************************************)
(* Billing enforcement (src/src/billing/enforce.ts)                        *)
(***************************************************************************)
LogEntry(org, loc, bs, action, result) ==
    [type |-> "BILLING_ENFORCEMENT", org_id |-> org, location_id |-> loc,
     billing_status |-> bs, action |-> action, result |-> result]

logEnforcementEvent(logs, entry) == Append(logs, entry)

\* faulty variant: a past-due account still counts as active
isBillingActive_PastDueGrace(billing_status) ==
    billing_status \in ACTIVE_BILLING_STATUSES \cup {"past_due"}

isBillingActive(billing_status) == billing_status \in ACTIVE_BILLING_STATUSES

\* faulty variant: the location checks run before the billing check
enforceLocationPairing_LocationFirst(acc, location, currentDeviceCount, logs) ==
    LET entry(res) == LogEntry(acc.id, location.id, acc.billing_status,
                               "LOCATION_PAIR_DEVICE", res)
    IN  IF ~location.active
        THEN [allowed |-> FALSE, code |-> "LOCATION_INACTIVE",
              logs |-> logEnforcementEvent(logs, entry("BLOCKED"))]
        ELSE IF ~isBillingActive(acc.billing_status)
        THEN [allowed |-> FALSE, code |-> "BILLING_INACTIVE",
              logs |-> logEnforcementEvent(logs, entry("BLOCKED"))]
        ELSE IF ~location.setup_fee_paid
        THEN [allowed |-> FALSE, code |-> "SETUP_FEE_NOT_PAID",
              logs |-> logEnforcementEvent(logs, entry("BLOCKED"))]
        ELSE IF currentDeviceCount >= location.device_limit
        THEN [allowed |-> FALSE, code |-> "DEVICE_LIMIT_REACHED",
              logs |-> logEnforcementEvent(logs, entry("BLOCKED"))]
        ELSE [allowed |-> TRUE, code |-> None,
              logs |-> logEnforcementEvent(logs, entry("ALLOWED"))]

\* faulty variant: the allowed branch returns without writing its audit entry
enforceLocationPairing_NoAllowLog(acc, location, currentDeviceCount, logs) ==
    LET entry(res) == LogEntry(acc.id, location.id, acc.billing_status,
                               "LOCATION_PAIR_DEVICE", res)
    IN  IF ~isBillingActive(acc.billing_status)
        THEN [allowed |-> FALSE, code |-> "BILLING_INACTIVE",
              logs |-> logEnforcementEvent(logs, entry("BLOCKED"))]
        ELSE IF ~location.active
        THEN [allowed |-> FALSE, code |-> "LOCATION_INACTIVE",
              logs |-> logEnforcementEvent(logs, entry("BLOCKED"))]
        ELSE IF ~location.setup_fee_paid
        THEN [allowed |-> FALSE, code |-> "SETUP_FEE_NOT_PAID",
              logs |-> logEnforcementEvent(logs, entry("BLOCKED"))]
        ELSE IF currentDeviceCount >= location.device_limit
        THEN [allowed |-> FALSE, code |-> "DEVICE_LIMIT_REACHED",
              logs |-> logEnforcementEvent(logs, entry("BLOCKED"))]
        ELSE [allowed |-> TRUE, code |-> None, logs |-> logs]

\* faulty variant: check 4 blocks only above the limit
enforceLocationPairing_AboveLimit(acc, location, currentDeviceCount, logs) ==
    LET entry(res) == LogEntry(acc.id, location.id, acc.billing_status,
                               "LOCATION_PAIR_DEVICE", res)
    IN  IF ~isBillingActive(acc.billing_status)
        THEN [allowed |-> FALSE, code |-> "BILLING_INACTIVE",
              logs |-> logEnforcementEvent(logs, entry("BLOCKED"))]
        ELSE IF ~location.active
        THEN [allowed |-> FALSE, code |-> "LOCATION_INACTIVE",
              logs |-> logEnforcementEvent(logs, entry("BLOCKED"))]
        ELSE IF ~location.setup_fee_paid
        THEN [allowed |-> FALSE, code |-> "SETUP_FEE_NOT_PAID",
              logs |-> logEnforcementEvent(logs, entry("BLOCKED"))]
        ELSE IF currentDeviceCount > location.device_limit
        THEN [allowed |-> FALSE, code |-> "DEVICE_LIMIT_REACHED",
              logs |-> logEnforcementEvent(logs, entry("BLOCKED"))]
        ELSE [allowed |-> TRUE, code |-> None,
              logs |-> logEnforcementEvent(logs, entry("ALLOWED"))]

\* enforceLocationPairing: the returned record also carries the log as the call leaves it
enforceLocationPairing(acc, location, currentDeviceCount, logs) ==
    LET entry(res) == LogEntry(acc.id, location.id, acc.billing_status,
                               "LOCATION_PAIR_DEVICE", res)
    IN  IF ~isBillingActive(acc.billing_status)
        THEN [allowed |-> FALSE, code |-> "BILLING_INACTIVE",
              logs |-> logEnforcementEvent(logs, entry("BLOCKED"))]
        ELSE IF ~location.active
        THEN [allowed |-> FALSE, code |-> "LOCATION_INACTIVE",
              logs |-> logEnforcementEvent(logs, entry("BLOCKED"))]
        ELSE IF ~location.setup_fee_paid
        THEN [allowed |-> FALSE, code |-> "SETUP_FEE_NOT_PAID",
              logs |-> logEnforcementEvent(logs, entry("BLOCKED"))]
        ELSE IF currentDeviceCount >= location.device_limit
        THEN [allowed |-> FALSE, code |-> "DEVICE_LIMIT_REACHED",
              logs |-> logEnforcementEvent(logs, entry("BLOCKED"))]
        ELSE [allowed |-> TRUE, code |-> None,
              logs |-> logEnforcementEvent(logs, entry("ALLOWED"))]

\* fields the returned object leaves out are written None
\* canLocationAddDevice: the boolean it returns and the log as the call leaves it
canLocationAddDevice(acc, location, currentDeviceCount, logs) ==
    LET result == enforceLocationPairing(acc, location, currentDeviceCount, logs)
    IN  [result |-> result.allowed, logs |-> result.logs]

enforceBillingForPairing(acc, logs) ==
    LET isActive == isBillingActive(acc.billing_status)
    IN  [allowed |-> isActive,
         error |-> IF isActive THEN None ELSE "BILLING_INACTIVE",
         code |-> IF isActive THEN None ELSE "BILLING_INACTIVE",
         message |-> IF isActive THEN None
                     ELSE "Active subscription required to pair new devices. Please visit /billing to activate.",
         logs |-> logEnforcementEvent(logs,
                     LogEntry(acc.id, None, acc.billing_status, "PAIR_DEVICE",
                              IF isActive THEN "ALLOWED" ELSE "BLOCKED"))]

\* enforceDeviceLimit throws when the limit is exceeded: threw = TRUE
enforceDeviceLimit(acc, deviceCount, logs) ==
    LET maxDevices == acc.plan.max_devices
        allowed == IF maxDevices = unlimited THEN TRUE ELSE deviceCount <= maxDevices
    IN  [threw |-> ~allowed,
         message |-> IF allowed THEN None ELSE "Device limit exceeded",
         logs |-> logEnforcementEvent(logs,
                     LogEntry(acc.id, None, acc.billing_status, "CHECK_DEVICE_LIMIT",
                              IF allowed THEN "ALLOWED" ELSE "BLOCKED"))]

(***************************************************************************)
(* Device pairing (src/devices/pair.ts)                                    *)
(***************************************************************************)
\* pairDevice(req, account): the request names no location and the function
\* reads none; the returned record carries the log as the call leaves it.
\* threw = TRUE stands for a rejected promise; the text of the limit message,
\* which names the plan's maximum and the attempted count, is abridged.
\* faulty variant: the limit gate is called outside any try/catch
pairDevice_NoCatch(req, acc, logs) ==
    LET billingCheck == enforceBillingForPairing(acc, logs)
    IN  IF ~billingCheck.allowed
        THEN [threw |-> FALSE, success |-> FALSE, error |-> billingCheck.error,
              code |-> billingCheck.code, message |-> billingCheck.message,
              billing_status |-> acc.billing_status,
              help |-> "Visit /billing to activate your subscription",
              logs |-> billingCheck.logs]
        ELSE LET limit == enforceDeviceLimit(acc, acc.device_count + 1, billingCheck.logs)
             IN  IF limit.threw
                 THEN [threw |-> TRUE, success |-> FALSE, error |-> None,
                       code |-> None, message |-> limit.message,
                       billing_status |-> None, help |-> None,
                       logs |-> limit.logs]
                 ELSE [threw |-> FALSE, success |-> TRUE, error |-> None,
                       code |-> None, message |-> None,
                       billing_status |-> None, help |-> None,
                       logs |-> logEnforcementEvent(limit.logs,
                                   LogEntry(acc.id, None, acc.billing_status,
                                            "PAIR_DEVICE", "ALLOWED"))]

pairDevice(req, acc, logs) ==
    LET billingCheck == enforceBillingForPairing(acc, logs)
    IN  IF ~billingCheck.allowed
        THEN [threw |-> FALSE, success |-> FALSE, error |-> billingCheck.error,
              code |-> billingCheck.code, message |-> billingCheck.message,
              billing_status |-> acc.billing_status,
              help |-> "Visit /billing to activate your subscription",
              logs |-> billingCheck.logs]
        ELSE LET limit == enforceDeviceLimit(acc, acc.device_count + 1, billingCheck.logs)
             IN  IF limit.threw
                 THEN [threw |-> FALSE, success |-> FALSE,
                       error |-> "DEVICE_LIMIT_EXCEEDED",
                       code |-> "DEVICE_LIMIT_EXCEEDED", message |-> limit.message,
                       billing_status |-> acc.billing_status,
                       help |-> "Upgrade your plan at /billing to add more devices",
                       logs |-> logEnforcementEvent(limit.logs,
                                   LogEntry(acc.id, None, acc.billing_status,
                                            "PAIR_DEVICE", "BLOCKED"))]
                 ELSE [threw |-> FALSE, success |-> TRUE, error |-> None,
                       code |-> None, message |-> None,
                       billing_status |-> None, help |-> None,
                       logs |-> logEnforcementEvent(limit.logs,
                                   LogEntry(acc.id, None, acc.billing_status,
                                            "PAIR_DEVICE", "ALLOWED"))]

\* faulty variant: the pre-flight check lets an account at its limit through
canPairDevice_AboveLimit(acc) ==
    IF acc.billing_status \notin ACTIVE_BILLING_STATUSES
    THEN [allowed |-> FALSE, code |-> "BILLING_INACTIVE",
          billing_status |-> acc.billing_status]
    ELSE IF acc.plan.max_devices # unlimited /\ acc.device_count > acc.plan.max_devices
    THEN [allowed |-> FALSE, code |-> "DEVICE_LIMIT_EXCEEDED",
          billing_status |-> acc.billing_status]
    ELSE [allowed |-> TRUE, code |-> None, billing_status |-> acc.billing_status]

canPairDevice(acc) ==
    IF acc.billing_status \notin ACTIVE_BILLING_STATUSES
    THEN [allowed |-> FALSE, code |-> "BILLING_INACTIVE",
          billing_status |-> acc.billing_status]
    ELSE IF acc.plan.max_devices # unlimited /\ acc.device_count >= acc.plan.max_devices
    THEN [allowed |-> FALSE, code |-> "DEVICE_LIMIT_EXCEEDED",
          billing_status |-> acc.billing_status]
    ELSE [allowed |-> TRUE, code |-> None, billing_status |-> acc.billing_status]

(***************************************************************************)
(* Heartbeat handler (src/src/heartbeat/handler.ts)                        *)
(***************************************************************************)
\* accountInfo is optional: given = FALSE stands for undefined
\* faulty variant: the handler refuses to acknowledge when billing has lapsed
handleHeartbeat_BillingGated(payload, accountInfo, lastSeen, logs, t) ==
    LET active == ~accountInfo.given \/ isBillingActive(accountInfo.billing_status)
    IN  [response |-> [acknowledged |-> active,
                       server_time |-> t,
                       billing_status |-> IF ~accountInfo.given THEN None
                                          ELSE accountInfo.billing_status,
                       commands |-> IF active THEN <<>> ELSE <<"restart">>],
         lastSeen |-> [lastSeen EXCEPT ![payload.device_id] = t],
         logs |-> logs]

\* handleHeartbeat: response, the last-seen map and the enforcement log after the call
handleHeartbeat(payload, accountInfo, lastSeen, logs, t) ==
    [response |-> [acknowledged |-> TRUE,
                   server_time |-> t,
                   billing_status |-> IF ~accountInfo.given THEN None
                                      ELSE accountInfo.billing_status,
                   commands |-> <<>>],
     lastSeen |-> [lastSeen EXCEPT ![payload.device_id] = t],
     logs |-> logs]

(***************************************************************************)
(* Stripe webhook handler (src/billing/webhook.ts)                         *)
(***************************************************************************)
StripeStatuses == {"active", "trialing", "past_due", "canceled", "unpaid",
                   "incomplete", "incomplete_expired", "paused"}

\* faulty variant: a trial is reported as paid
mapSubscriptionStatus_TrialingPaid(stripeStatus) ==
    CASE stripeStatus \in {"active", "trialing"} -> "paid"
      [] stripeStatus = "past_due" -> "past_due"
      [] OTHER -> "unpaid"

mapSubscriptionStatus(stripeStatus) ==
    CASE stripeStatus = "active" -> "paid"
      [] stripeStatus = "trialing" -> "trialing"
      [] stripeStatus = "past_due" -> "past_due"
      [] stripeStatus \in {"canceled", "unpaid", "incomplete",
                           "incomplete_expired", "paused"} -> "unpaid"
      [] OTHER -> "unpaid"

(***************************************************************************)
(* Billing function (src/netlify/functions/billing.js)                     *)
(***************************************************************************)
\* the function's own mapSubscriptionStatus
billingMapSubscriptionStatus(status) ==
    CASE status = "active" -> "paid"
      [] status = "trialing" -> "trialing"
      [] status = "past_due" -> "past_due"
      [] OTHER -> "unpaid"

(***************************************************************************)
(* Subscription status check (src/billing/status.ts)                       *)
(***************************************************************************)
\* what stripe.subscriptions.list({customer, status: 'all', limit: 1}) gives:
\* it throws, or it returns at most one subscription, the latest
SubscriptionLists ==
    {[threw |-> TRUE, data |-> <<>>], [threw |-> FALSE, data |-> <<>>]}
        \cup {[threw |-> FALSE, data |-> <<[status |-> st]>>] :
                  st \in StripeStatuses \cup {"unrecognized"}}

\* faulty variant: a failed lookup is passed on to the caller
getAccountBillingStatus_Rethrows(subs) ==
    IF subs.threw THEN [threw |-> TRUE, status |-> None]
    ELSE IF Len(subs.data) = 0 THEN [threw |-> FALSE, status |-> "unpaid"]
    ELSE [threw |-> FALSE,
          status |-> CASE subs.data[1].status \in {"active", "trialing"} -> "paid"
                       [] subs.data[1].status = "past_due" -> "past_due"
                       [] subs.data[1].status \in {"canceled", "unpaid"} -> "unpaid"
                       [] OTHER -> "unpaid"]

\* getAccountBillingStatus on the outcome of the lookup; threw = TRUE would be
\* a rejected promise
getAccountBillingStatus(subs) ==
    IF subs.threw THEN [threw |-> FALSE, status |-> "unpaid"]
    ELSE IF Len(subs.data) = 0 THEN [threw |-> FALSE, status |-> "unpaid"]
    ELSE [threw |-> FALSE,
          status |-> CASE subs.data[1].status \in {"active", "trialing"} -> "paid"
                       [] subs.data[1].status = "past_due" -> "past_due"
                       [] subs.data[1].status \in {"canceled", "unpaid"} -> "unpaid"
                       [] OTHER -> "unpaid"]

handleCheckoutCompleted(plan) ==
    /\ account' = [account EXCEPT !.billing_status = "paid", !.current_plan = plan]
    /\ ret' = [op |-> "handleCheckoutCompleted"]
    /\ UNCHANGED <<locations, devices, enforcementLogs, deviceLastSeen, now>>

handleSubscriptionChange(stripeStatus, plan) ==
    /\ account' = [account EXCEPT !.billing_status = mapSubscriptionStatus(stripeStatus),
                                  !.current_plan = plan]
    /\ ret' = [op |-> "handleSubscriptionChange"]
    /\ UNCHANGED <<locations, devices, enforcementLogs, deviceLastSeen, now>>

handleSubscriptionDeleted ==
    /\ account' = [account EXCEPT !.billing_status = "unpaid"]
    /\ ret' = [op |-> "handleSubscriptionDeleted"]
    /\ UNCHANGED <<locations, devices, enforcementLogs, deviceLastSeen, now>>

handlePaymentFailed ==
    /\ account' = [account EXCEPT !.billing_status = "past_due"]
    /\ ret' = [op |-> "handlePaymentFailed"]
    /\ UNCHANGED <<locations, devices, enforcementLogs, deviceLastSeen, now>>

(***************************************************************************)
(* Location service (src/src/locations/index.ts)                           *)
(***************************************************************************)
NoLocation == [exists |-> FALSE]
NoAttempt == [at |-> "idle", count |-> 0]

LocationRow(l, tier, active, paid) ==
    [exists |-> TRUE, id |-> l, plan_tier |-> tier,
     device_limit |-> PLAN_DEVICE_LIMITS[tier],
     active |-> active, setup_fee_paid |-> paid]

\* faulty variant: the insert leaves active to the column's default, true
createLocation_SchemaDefault(l, tier) ==
    /\ ~locations[l].exists
    /\ locations' = [locations EXCEPT ![l] = LocationRow(l, tier, TRUE, FALSE)]
    /\ ret' = [op |-> "createLocation", error |-> FALSE]
    /\ UNCHANGED <<account, devices, enforcementLogs, deviceLastSeen, now>>

createLocation(l, tier) ==
    /\ ~locations[l].exists
    /\ locations' = [locations EXCEPT ![l] = LocationRow(l, tier, FALSE, FALSE)]
    /\ ret' = [op |-> "createLocation", error |-> FALSE]
    /\ UNCHANGED <<account, devices, enforcementLogs, deviceLastSeen, now>>

\* an update that matches no row makes .single() report an error, which is thrown
activateLocationAfterPayment(l) ==
    /\ locations' = IF locations[l].exists
                    THEN [locations EXCEPT ![l].setup_fee_paid = TRUE, ![l].active = TRUE]
                    ELSE locations
    /\ ret' = [op |-> "activateLocationAfterPayment", error |-> ~locations[l].exists]
    /\ UNCHANGED <<account, devices, enforcementLogs, deviceLastSeen, now>>

updateLocationPlan(l, tier) ==
    /\ locations' = IF locations[l].exists
                    THEN [locations EXCEPT ![l].plan_tier = tier,
                                           ![l].device_limit = PLAN_DEVICE_LIMITS[tier]]
                    ELSE locations
    /\ ret' = [op |-> "updateLocationPlan", error |-> ~locations[l].exists]
    /\ UNCHANGED <<account, devices, enforcementLogs, deviceLastSeen, now>>

deactivateLocation(l) ==
    /\ locations' = IF locations[l].exists
                    THEN [locations EXCEPT ![l].active = FALSE]
                    ELSE locations
    /\ ret' = [op |-> "deactivateLocation", error |-> ~locations[l].exists]
    /\ UNCHANGED <<account, devices, enforcementLogs, deviceLastSeen, now>>

getLocationDeviceCount(l) == Cardinality({d \in DOMAIN devices : devices[d] = l})

\* canAddDevice after its two reads: the location row and the device count
canAddDevice(location, deviceCount) ==
    IF ~location.exists THEN [allowed |-> FALSE, reason |-> "LOCATION_NOT_FOUND"]
    ELSE IF ~location.active THEN [allowed |-> FALSE, reason |-> "LOCATION_INACTIVE"]
    ELSE IF ~location.setup_fee_paid THEN [allowed |-> FALSE, reason |-> "SETUP_FEE_NOT_PAID"]
    ELSE IF deviceCount >= location.device_limit
    THEN [allowed |-> FALSE, reason |-> "DEVICE_LIMIT_REACHED"]
    ELSE [allowed |-> TRUE, reason |-> None]

(***************************************************************************)
(* Calls of the pairing endpoint and of the heartbeat handler              *)
(***************************************************************************)
\* POST /api/devices/pair for a registered device d that is to stand at location l.
\* On success the device row is bound and the caller reflects the new count.
PairDevice(d, l) ==
    /\ devices[d] = None
    /\ locations[l].exists
    /\ Len(enforcementLogs) + 3 <= MaxLog
    /\ LET r == pairDevice([device_id |-> d, account_id |-> account.id], account,
                           enforcementLogs)
       IN  /\ enforcementLogs' = r.logs
           /\ devices' = IF r.success THEN [devices EXCEPT ![d] = l] ELSE devices
           /\ account' = IF r.success
                         THEN [account EXCEPT !.device_count = @ + 1]
                         ELSE account
           /\ ret' = [op |-> "pairDevice", device_id |-> d, location_id |-> l,
                      success |-> r.success, code |-> r.code,
                      billing_status |-> account.billing_status]
    /\ UNCHANGED <<locations, deviceLastSeen, now>>

\* POST /api/heartbeat from device d; the caller passes the stored account or nothing
HandleHeartbeat(d, withInfo) ==
    /\ LET info == IF withInfo
                   THEN [given |-> TRUE, billing_status |-> account.billing_status,
                         plan |-> account.current_plan,
                         device_count |-> account.device_count]
                   ELSE [given |-> FALSE]
           r == handleHeartbeat([device_id |-> d], info, deviceLastSeen,
                                enforcementLogs, now)
       IN  /\ deviceLastSeen' = r.lastSeen
           /\ enforcementLogs' = r.logs
           /\ ret' = [op |-> "handleHeartbeat", device_id |-> d,
                      acknowledged |-> r.response.acknowledged,
                      billing_status |-> r.response.billing_status,
                      commands |-> r.response.commands]
    /\ UNCHANGED <<account, locations, devices, now>>

(***************************************************************************)
(* Rollouts service (src/services/rollouts/rolloutsService.js) over the    *)
(* tables rollouts and rollout_executions.  db = [rollouts, executions].   *)
(***************************************************************************)
RolloutLocs == {"L1", "L2"}
RolloutTypes == {"menu_activation", "config_update", "feature_toggle"}
RolloutStatuses == {"pending", "scheduled", "in_progress", "completed", "failed",
                    "rolled_back"}
ExecutionStatuses == {"pending", "in_progress", "completed", "failed"}
RolloutIds == {1, 2, 3}
\* the rows of a run that follows one rollout and the rollout its rollback derives
PairIds == {1, 2}
Null == 0            \* a NULL timestamp

NoRollout == [exists |-> FALSE]
NoExecution == [exists |-> FALSE]

EmptyDb ==
    [rollouts |-> [i \in RolloutIds |-> NoRollout],
     executions |-> [k \in RolloutIds \X RolloutLocs |-> NoExecution]]

FreeIds(db) == {i \in RolloutIds : ~db.rollouts[i].exists}
NewId(db) == CHOOSE i \in FreeIds(db) : \A j \in FreeIds(db) : i <= j

\* the rows of rollout_executions with rollout_id = rolloutId
ExecutionsOf(db, rolloutId) ==
    {l \in RolloutLocs : db.executions[<<rolloutId, l>>].exists}

\* faulty variant: scheduledAt is stored but the status is always pending
createRollout_AlwaysPending(db, organizationId, rolloutType, targetLocations, payload, scheduledAt, rolloutInsertOk, execInsertOk) ==
    IF ~rolloutInsertOk
    THEN [db |-> db, threw |-> TRUE, id |-> Null]
    ELSE
    LET id == NewId(db)
        data == [exists |-> TRUE, id |-> id, organization_id |-> organizationId,
                 rollout_type |-> rolloutType,
                 target_locations |-> targetLocations, payload |-> payload,
                 status |-> "pending",
                 scheduled_at |-> scheduledAt, started_at |-> Null,
                 completed_at |-> Null]
        inserted == [k \in RolloutIds \X RolloutLocs |->
                        IF k[1] = id /\ k[2] \in targetLocations
                        THEN [exists |-> TRUE, status |-> "pending",
                              error_message |-> None]
                        ELSE db.executions[k]]
    IN  [db |-> [rollouts |-> [db.rollouts EXCEPT ![id] = data],
                 executions |-> IF targetLocations # {} /\ execInsertOk
                                THEN inserted ELSE db.executions],
         threw |-> FALSE, id |-> id]

\* createRollout.  rolloutInsertOk = FALSE: the insert into rollouts fails and the
\* error is thrown.  execInsertOk = FALSE: the insert into rollout_executions
\* fails, which the client reports in a result that createRollout does not look at
createRollout(db, organizationId, rolloutType, targetLocations, payload, scheduledAt, rolloutInsertOk, execInsertOk) ==
    IF ~rolloutInsertOk
    THEN [db |-> db, threw |-> TRUE, id |-> Null]
    ELSE
    LET id == NewId(db)
        data == [exists |-> TRUE, id |-> id, organization_id |-> organizationId,
                 rollout_type |-> rolloutType,
                 target_locations |-> targetLocations, payload |-> payload,
                 status |-> IF scheduledAt # Null THEN "scheduled" ELSE "pending",
                 scheduled_at |-> scheduledAt, started_at |-> Null,
                 completed_at |-> Null]
        inserted == [k \in RolloutIds \X RolloutLocs |->
                        IF k[1] = id /\ k[2] \in targetLocations
                        THEN [exists |-> TRUE, status |-> "pending",
                              error_message |-> None]
                        ELSE db.executions[k]]
    IN  [db |-> [rollouts |-> [db.rollouts EXCEPT ![id] = data],
                 executions |-> IF targetLocations # {} /\ execInsertOk
                                THEN inserted ELSE db.executions],
         threw |-> FALSE, id |-> id]

\* faulty variant: the status filter of the update is missing
startRollout_NoFilter(db, rolloutId, t) ==
    IF db.rollouts[rolloutId].exists
    THEN [db |-> [db EXCEPT !.rollouts[rolloutId].status = "in_progress",
                            !.rollouts[rolloutId].started_at = t],
          threw |-> FALSE]
    ELSE [db |-> db, threw |-> TRUE]

\* startRollout: the update matches the row only while it is pending; with no
\* row matched .single() reports an error, which is thrown
startRollout(db, rolloutId, t) ==
    IF db.rollouts[rolloutId].exists /\ db.rollouts[rolloutId].status = "pending"
    THEN [db |-> [db EXCEPT !.rollouts[rolloutId].status = "in_progress",
                            !.rollouts[rolloutId].started_at = t],
          threw |-> FALSE]
    ELSE [db |-> db, threw |-> TRUE]

\* the select of checkRolloutCompletion: the statuses of the rollout's executions
selectExecutionStatuses(db, rolloutId) ==
    {db.executions[<<rolloutId, l>>].status : l \in ExecutionsOf(db, rolloutId)}

\* faulty variant: one finished execution is taken for all of them
updateRolloutIfComplete_AnyComplete(db, rolloutId, statuses, t) ==
    LET allComplete == \E s \in statuses : s \in {"completed", "failed"}
        hasFailure == "failed" \in statuses
    IN  IF allComplete
        THEN [db EXCEPT !.rollouts[rolloutId].status =
                            IF hasFailure THEN "failed" ELSE "completed",
                        !.rollouts[rolloutId].completed_at = t]
        ELSE db

\* the rest of checkRolloutCompletion, on the statuses that the select returned:
\* the update of the rollout row carries no condition on its present status
updateRolloutIfComplete(db, rolloutId, statuses, t) ==
    LET allComplete == \A s \in statuses : s \in {"completed", "failed"}
        hasFailure == \E s \in statuses : s = "failed"
        finalStatus == IF hasFailure THEN "failed" ELSE "completed"
    IN  IF allComplete
        THEN [db EXCEPT !.rollouts[rolloutId].status = finalStatus,
                        !.rollouts[rolloutId].completed_at = t]
        ELSE db

\* faulty variant: one finished execution is taken for all of them
checkRolloutCompletion_AnyComplete(db, rolloutId, t) ==
    updateRolloutIfComplete_AnyComplete(
        db, rolloutId, selectExecutionStatuses(db, rolloutId), t)

checkRolloutCompletion(db, rolloutId, t) ==
    updateRolloutIfComplete(db, rolloutId,
                            selectExecutionStatuses(db, rolloutId), t)

\* the update of the one execution row of (rolloutId, locationId); the row's own
\* started_at and completed_at columns, which the service writes here and never
\* reads, are not represented
updateExecutionRow(db, rolloutId, locationId, status, errorMessage, t) ==
    LET e == db.executions[<<rolloutId, locationId>>]
        updated == [e EXCEPT !.status = status,
                             !.error_message = errorMessage]
    IN  [db EXCEPT !.executions[<<rolloutId, locationId>>] = updated]

\* faulty variant: the completion check runs although no execution row matched
updateExecutionStatus_NoThrow(db, rolloutId, locationId, status, errorMessage, t) ==
    IF db.executions[<<rolloutId, locationId>>].exists
    THEN [db |-> checkRolloutCompletion(
                     updateExecutionRow(db, rolloutId, locationId, status,
                                        errorMessage, t),
                     rolloutId, t),
          threw |-> FALSE]
    ELSE [db |-> IF db.rollouts[rolloutId].exists
                 THEN checkRolloutCompletion(db, rolloutId, t) ELSE db,
          threw |-> FALSE]

\* updateExecutionStatus: with no execution row matched .single() reports an
\* error, which is thrown before the completion check
updateExecutionStatus(db, rolloutId, locationId, status, errorMessage, t) ==
    IF db.executions[<<rolloutId, locationId>>].exists
    THEN [db |-> checkRolloutCompletion(
                     updateExecutionRow(db, rolloutId, locationId, status,
                                        errorMessage, t),
                     rolloutId, t),
          threw |-> FALSE]
    ELSE [db |-> db, threw |-> TRUE]

\* faulty variant: the status filter of the update is missing
cancelRollout_NoFilter(db, rolloutId) ==
    IF db.rollouts[rolloutId].exists
    THEN [db |-> [db EXCEPT !.rollouts[rolloutId].status = "rolled_back"],
          threw |-> FALSE]
    ELSE [db |-> db, threw |-> TRUE]

\* cancelRollout: the update matches the row only while it is pending or
\* scheduled; with no row matched .single() reports an error, which is thrown
cancelRollout(db, rolloutId) ==
    IF /\ db.rollouts[rolloutId].exists
       /\ db.rollouts[rolloutId].status \in {"pending", "scheduled"}
    THEN [db |-> [db EXCEPT !.rollouts[rolloutId].status = "rolled_back"],
          threw |-> FALSE]
    ELSE [db |-> db, threw |-> TRUE]

\* faulty variant: the new rollout's payload is the original's, untagged
rollbackRollout_UntaggedPayload(db, rolloutId, rolloutInsertOk, execInsertOk) ==
    IF ~db.rollouts[rolloutId].exists
    THEN [db |-> db, threw |-> TRUE, id |-> Null]
    ELSE LET original == db.rollouts[rolloutId]
             marked == [db EXCEPT !.rollouts[rolloutId].status = "rolled_back"]
         IN  createRollout(marked, original.organization_id,
                           original.rollout_type, original.target_locations,
                           original.payload, Null, rolloutInsertOk, execInsertOk)

\* rollbackRollout: getRollout throws when there is no such row
rollbackRollout(db, rolloutId, rolloutInsertOk, execInsertOk) ==
    IF ~db.rollouts[rolloutId].exists
    THEN [db |-> db, threw |-> TRUE, id |-> Null]
    ELSE LET original == db.rollouts[rolloutId]
             marked == [db EXCEPT !.rollouts[rolloutId].status = "rolled_back"]
             rollbackPayload == [original.payload EXCEPT
                                    !.is_rollback = TRUE,
                                    !.original_rollout_id = rolloutId]
         IN  createRollout(marked, original.organization_id,
                           original.rollout_type, original.target_locations,
                           rollbackPayload, Null, rolloutInsertOk, execInsertOk)

getDueScheduledRollouts(db, t) ==
    {i \in RolloutIds : /\ db.rollouts[i].exists
                        /\ db.rollouts[i].status = "scheduled"
                        /\ db.rollouts[i].scheduled_at <= t}

(***************************************************************************)
(* Calls of the rollouts service, each one request handled on its own      *)
(***************************************************************************)
Db == [rollouts |-> rollouts, executions |-> executions]

TargetSets == {{}, {"L1", "L2"}}
\* the statuses the locations report through updateExecutionStatus
ReportedStatuses == {"in_progress", "completed", "failed"}
Payloads == [content : {"menuA"}, is_rollback : {FALSE}, original_rollout_id : {Null}]

\* the store accepts one row per id; past that only failing inserts are followed
CreateRollout(rolloutType, targetLocations, payload, scheduledAt, rolloutInsertOk, execInsertOk) ==
    /\ FreeIds(Db) # {} \/ ~rolloutInsertOk
    /\ LET r == createRollout(Db, "org1", rolloutType, targetLocations, payload,
                              scheduledAt, rolloutInsertOk, execInsertOk)
       IN  /\ rollouts' = r.db.rollouts
           /\ executions' = r.db.executions
           /\ rret' = [op |-> "createRollout", threw |-> r.threw]
    /\ UNCHANGED now

StartRollout(rolloutId) ==
    /\ LET r == startRollout(Db, rolloutId, now)
       IN  /\ rollouts' = r.db.rollouts
           /\ executions' = r.db.executions
           /\ rret' = [op |-> "startRollout", threw |-> r.threw]
    /\ UNCHANGED now

UpdateExecutionStatus(rolloutId, locationId, status, errorMessage) ==
    /\ LET r == updateExecutionStatus(Db, rolloutId, locationId, status,
                                      errorMessage, now)
       IN  /\ rollouts' = r.db.rollouts
           /\ executions' = r.db.executions
           /\ rret' = IF r.threw
                      THEN [op |-> "updateExecutionStatus", threw |-> TRUE]
                      ELSE [op |-> "updateExecutionStatus", threw |-> FALSE,
                            rollout_id |-> rolloutId]
    /\ UNCHANGED now

CancelRollout(rolloutId) ==
    /\ LET r == cancelRollout(Db, rolloutId)
       IN  /\ rollouts' = r.db.rollouts
           /\ executions' = r.db.executions
           /\ rret' = [op |-> "cancelRollout", threw |-> r.threw]
    /\ UNCHANGED now

RollbackRollout(rolloutId, rolloutInsertOk, execInsertOk) ==
    /\ FreeIds(Db) # {} \/ ~rolloutInsertOk
    /\ LET r == rollbackRollout(Db, rolloutId, rolloutInsertOk, execInsertOk)
       IN  /\ rollouts' = r.db.rollouts
           /\ executions' = r.db.executions
           /\ rret' = [op |-> "rollbackRollout", threw |-> r.threw]
    /\ UNCHANGED now

GetDueScheduledRollouts ==
    /\ rret' = [op |-> "getDueScheduledRollouts", threw |-> FALSE,
                data |-> getDueScheduledRollouts(Db, now)]
    /\ UNCHANGED <<rollouts, executions, now>>

Tick ==
    /\ now < MaxTime
    /\ now' = now + 1

(***************************************************************************)
(* Service registry (registry service, part_003, and the heartbeat API,    *)
(* part_015) over table service_registry.  A row is                        *)
(* [service_id, location_id, instance_id, status, version, last_heartbeat];*)
(* base_url, metadata and updated_at are written and never read and are    *)
(* not represented.  The clock counts in steps of TickMs milliseconds.     *)
(***************************************************************************)
HEARTBEAT_TIMEOUT_MS == 120000
TickMs == HEARTBEAT_TIMEOUT_MS
DateNow(t) == t * TickMs

ServiceStatuses == {"online", "degraded", "offline", "unknown"}
validServices == {"modos-menus", "pos-lite", "kds"}
RegLocs == {"L1", "L9"}
\* the locations table: L1 is a location of org1, L9 of another organization
locationOrganization == [l \in RegLocs |-> IF l = "L1" THEN "org1" ELSE "org2"]
Callers == {"c1", "c2"}
NoHeartbeat == [held |-> FALSE]

\* the row both writers of a heartbeat build; None stands for an omitted (or
\* otherwise falsy) field
heartbeatRow(service, locationId, instanceId, status, version, t) ==
    [service_id |-> service,
     location_id |-> locationId,
     instance_id |-> IF instanceId = None
                     THEN service \o "-" \o locationId ELSE instanceId,
     status |-> IF status = None THEN "online" ELSE status,
     version |-> version,
     last_heartbeat |-> DateNow(t)]

sameKey(r, q) ==
    /\ r.service_id = q.service_id
    /\ r.location_id = q.location_id
    /\ r.instance_id = q.instance_id

\* faulty variant: a plain insert, every heartbeat adding a row
upsert_Insert(reg, row) == reg \cup {row}

\* upsert with onConflict: 'service_id,location_id,instance_id' under the
\* table's UNIQUE constraint on the three columns
\* faulty variant: on conflict only status and last_heartbeat are overwritten
upsert_KeepVersion(reg, row) ==
    {r \in reg : ~sameKey(r, row)}
        \cup {[row EXCEPT !.version = IF \E r \in reg : sameKey(r, row)
                                      THEN (CHOOSE r \in reg : sameKey(r, row)).version
                                      ELSE row.version]}

\* faulty variant: on conflict the later of the two timestamps is kept
upsert_KeepNewest(reg, row) ==
    {r \in reg : ~sameKey(r, row)}
        \cup {[row EXCEPT !.last_heartbeat =
                   IF \E r \in reg : sameKey(r, row) /\ r.last_heartbeat > row.last_heartbeat
                   THEN (CHOOSE r \in reg : sameKey(r, row)).last_heartbeat
                   ELSE row.last_heartbeat]}

upsert(reg, row) == {r \in reg : ~sameKey(r, row)} \cup {row}

recordHeartbeat(reg, service, locationId, instanceId, status, version, t) ==
    LET row == heartbeatRow(service, locationId, instanceId, status, version, t)
    IN  [registry |-> upsert(reg, row), data |-> row]

\* POST /heartbeat of the API
postHeartbeat(reg, keyValid, service, locationId, instanceId, status, version, t) ==
    IF ~keyValid
    THEN [registry |-> reg, statusCode |-> 401, data |-> NoHeartbeat]
    ELSE IF service = None \/ locationId = None
    THEN [registry |-> reg, statusCode |-> 400, data |-> NoHeartbeat]
    ELSE IF service \notin validServices
    THEN [registry |-> reg, statusCode |-> 400, data |-> NoHeartbeat]
    ELSE LET row == heartbeatRow(service, locationId, instanceId, status,
                                 version, t)
         IN  [registry |-> upsert(reg, row), statusCode |-> 200, data |-> row]

getOrganizationServices(reg, organizationId) ==
    {r \in reg : locationOrganization[r.location_id] = organizationId}

\* faulty variant: an entry exactly at the threshold is taken for stale
isStale_AtThreshold(service, t) ==
    (DateNow(t) - service.last_heartbeat) >= HEARTBEAT_TIMEOUT_MS

isStale(service, t) == (DateNow(t) - service.last_heartbeat) > HEARTBEAT_TIMEOUT_MS

\* faulty variant: the stored status is reported as it stands
effectiveStatus_Stored(service, t) == service.status

effectiveStatus(service, t) == IF isStale(service, t) THEN "offline" ELSE service.status

\* the counts of a summary; byLocation, which lists for each location every
\* entry's effective status, version and last_heartbeat, is not represented
statusCounts(services, t) ==
    [st \in ServiceStatuses |->
        Cardinality({r \in services : effectiveStatus(r, t) = st})]

getServiceHealthSummary(reg, organizationId, t) ==
    LET services == getOrganizationServices(reg, organizationId)
        counts == statusCounts(services, t)
    IN  [total |-> Cardinality(services),
         online |-> counts["online"],
         degraded |-> counts["degraded"],
         offline |-> counts["offline"],
         unknown |-> counts["unknown"],
         byService |-> [sv \in {r.service_id : r \in services} |->
                          statusCounts({r \in services : r.service_id = sv}, t)]]

\* faulty variant: the sweep takes the threshold itself for stale
updateStaleServices_AtThreshold(reg, t) ==
    LET cutoff == DateNow(t) - HEARTBEAT_TIMEOUT_MS
        matched == {r \in reg : r.status # "offline" /\ r.last_heartbeat <= cutoff}
        data == {[r EXCEPT !.status = "offline"] : r \in matched}
    IN  [registry |-> (reg \ matched) \cup data, data |-> data]

updateStaleServices(reg, t) ==
    LET cutoff == DateNow(t) - HEARTBEAT_TIMEOUT_MS
        matched == {r \in reg : r.status # "offline" /\ r.last_heartbeat < cutoff}
        data == {[r EXCEPT !.status = "offline"] : r \in matched}
    IN  [registry |-> (reg \ matched) \cup data, data |-> data]

(***************************************************************************)
(* Calls of the registry service, each one request handled on its own      *)
(***************************************************************************)
RecordHeartbeat(service, locationId, instanceId, status, version) ==
    /\ LET r == recordHeartbeat(registry, service, locationId, instanceId,
                                status, version, now)
       IN  /\ registry' = r.registry
           /\ hret' = [op |-> "recordHeartbeat", data |-> r.data]
    /\ shadow' = recordHeartbeat(shadow, service, locationId, instanceId,
                                 status, version, now).registry
    /\ UNCHANGED <<hb, now>>

PostHeartbeat(keyValid, service, locationId, instanceId, status, version) ==
    /\ LET r == postHeartbeat(registry, keyValid, service, locationId,
                              instanceId, status, version, now)
       IN  /\ registry' = r.registry
           /\ hret' = [op |-> "postHeartbeat", statusCode |-> r.statusCode,
                       data |-> r.data]
    /\ shadow' = postHeartbeat(shadow, keyValid, service, locationId,
                               instanceId, status, version, now).registry
    /\ UNCHANGED <<hb, now>>

GetServiceHealthSummary(organizationId) ==
    /\ hret' = [op |-> "getServiceHealthSummary",
                summary |-> getServiceHealthSummary(registry, organizationId, now)]
    /\ UNCHANGED <<registry, shadow, hb, now>>

UpdateStaleServices ==
    /\ LET r == updateStaleServices(registry, now)
       IN  /\ registry' = r.registry
           /\ hret' = [op |-> "updateStaleServices", data |-> r.data]
    /\ UNCHANGED <<shadow, hb, now>>

RegTick ==
    /\ now < MaxRegTime
    /\ now' = now + 1
    /\ UNCHANGED regVars

(***************************************************************************)
(* Specifications of the pairing side.  The enforcement log and the        *)
(* last-seen map live in process memory and start empty; the account, the  *)
(* locations and the devices are rows of the store.                        *)
(***************************************************************************)
(***************************************************************************)
(* Heartbeat client (src/public/js/mosm-heartbeat-client.js)               *)
(***************************************************************************)
HEARTBEAT_TIMEOUT == 5000

\* what the network does to one POST: no connection, or a response with a status
\* code that arrives after so many milliseconds
FetchOutcomes ==
    {[kind |-> "network_error", status |-> 0, elapsed |-> 0]}
        \cup [kind : {"response"}, status : {200, 204, 404, 500}, elapsed : {100, 6000}]

\* fetch with the abort signal: the timer aborts a request still pending after
\* HEARTBEAT_TIMEOUT; response.ok is a status in 200..299
fetchHeartbeat(outcome) ==
    IF outcome.kind = "network_error"
    THEN [rejected |-> TRUE, error |-> "Failed to fetch", ok |-> FALSE]
    ELSE IF outcome.elapsed >= HEARTBEAT_TIMEOUT
    THEN [rejected |-> TRUE, error |-> "This operation was aborted", ok |-> FALSE]
    ELSE [rejected |-> FALSE, error |-> None, ok |-> outcome.status \in 200..299]

\* the constructor's fields; lastSuccess = Null stands for null
NewClient ==
    [running |-> FALSE, status |-> "online", lastSuccess |-> Null,
     consecutiveFailures |-> 0]

\* faulty variant: the catch block passes the error on after counting it
sendHeartbeat_Rethrows(cl, outcome, t) ==
    LET response == fetchHeartbeat(outcome)
    IN  IF ~response.rejected /\ response.ok
        THEN [client |-> [cl EXCEPT !.lastSuccess = t, !.consecutiveFailures = 0],
              threw |-> FALSE, callback |-> "onSuccess", consecutiveFailures |-> 0,
              warned |-> FALSE]
        ELSE [client |-> [cl EXCEPT !.consecutiveFailures = @ + 1],
              threw |-> TRUE, callback |-> "onError",
              consecutiveFailures |-> cl.consecutiveFailures + 1,
              warned |-> (cl.consecutiveFailures + 1) % 5 = 1]

\* _sendHeartbeat: the client after the call, whether the call threw (its
\* promise rejected), the callback it called and the count handed to onError;
\* the callbacks return normally, as the default ones do
sendHeartbeat(cl, outcome, t) ==
    LET response == fetchHeartbeat(outcome)
    IN  IF ~response.rejected /\ response.ok
        THEN [client |-> [cl EXCEPT !.lastSuccess = t, !.consecutiveFailures = 0],
              threw |-> FALSE, callback |-> "onSuccess", consecutiveFailures |-> 0,
              warned |-> FALSE]
        ELSE [client |-> [cl EXCEPT !.consecutiveFailures = @ + 1],
              threw |-> FALSE, callback |-> "onError",
              consecutiveFailures |-> cl.consecutiveFailures + 1,
              warned |-> (cl.consecutiveFailures + 1) % 5 = 1]

SendHeartbeatResult(opName, r, outcome) ==
    [op |-> opName, sent |-> TRUE, outcome |-> outcome, threw |-> r.threw,
     callback |-> r.callback, consecutiveFailures |-> r.consecutiveFailures,
     warned |-> r.warned]

\* start(): a running client only warns; otherwise one heartbeat goes out at once
\* and the interval is set
ClientStart(outcome) ==
    /\ client.consecutiveFailures < MaxFailures
    /\ IF client.running
       THEN /\ client' = client
            /\ cret' = [op |-> "start", sent |-> FALSE]
       ELSE LET r == sendHeartbeat(client, outcome, now)
            IN  /\ client' = [r.client EXCEPT !.running = TRUE]
                /\ cret' = SendHeartbeatResult("start", r, outcome)
    /\ UNCHANGED now

ClientStop ==
    /\ client' = [client EXCEPT !.running = FALSE]
    /\ cret' = [op |-> "stop", sent |-> FALSE]
    /\ UNCHANGED now

\* setStatus(status): only online and degraded are taken, and sent at once
ClientSetStatus(status, outcome) ==
    /\ client.consecutiveFailures < MaxFailures
    /\ IF status \in {"online", "degraded"}
       THEN LET r == sendHeartbeat([client EXCEPT !.status = status], outcome, now)
            IN  /\ client' = r.client
                /\ cret' = SendHeartbeatResult("setStatus", r, outcome)
       ELSE /\ client' = client
            /\ cret' = [op |-> "setStatus", sent |-> FALSE]
    /\ UNCHANGED now

\* the interval fires every HEARTBEAT_INTERVAL while the client runs
ClientInterval(outcome) ==
    /\ client.running
    /\ client.consecutiveFailures < MaxFailures
    /\ LET r == sendHeartbeat(client, outcome, now)
       IN  /\ client' = r.client
           /\ cret' = SendHeartbeatResult("interval", r, outcome)
    /\ UNCHANGED now

Accounts ==
    [id : {"org1"}, billing_status : BillingStatuses, current_plan : {"starter"},
     plan : [max_devices : MaxDevicesValues], device_count : {0}]

\* MOSMConfigClient: the cache keys its four reads use; NoData: no entry under
\* a key.  A cache entry is [cached, data]; its timestamp, which no read looks
\* at, is left out
CacheKeys == {"location", "screens", "features", "menu_m1"}
NoData == [cached |-> FALSE]
NoEntries == [k \in CacheKeys |-> NoData]
\* this._cache = null
NullCache == [null |-> TRUE]
\* typeof localStorage === 'undefined' (Node)
NoStorage == [available |-> FALSE]
\* a browser's localStorage without the item mosm_config_cache
EmptyStorage == [available |-> TRUE, item |-> NoEntries]

\* constructor: this._cache = null
NewConfigClient ==
    [_cache |-> NullCache, localStorage |-> NoStorage]

InitMemory ==
    /\ devices = [d \in Devices |-> None]
    /\ enforcementLogs = <<>>
    /\ deviceLastSeen = [d \in Devices |-> 0]
    /\ now = 1
    /\ ret = [op |-> "init"]
    /\ rollouts = EmptyDb.rollouts
    /\ executions = EmptyDb.executions
    /\ rret = [op |-> "init"]
    /\ pc = [l \in RolloutLocs |-> "done"]
    /\ seen = [l \in RolloutLocs |-> {}]
    /\ registry = {}
    /\ shadow = {}
    /\ hret = [op |-> "init"]
    /\ hb = [c \in Callers |-> NoHeartbeat]
    /\ attempt = [d \in Devices |-> NoAttempt]
    /\ client = NewClient
    /\ cret = [op |-> "init", sent |-> FALSE]
    /\ configClient = NewConfigClient
    /\ lastFetched = [k \in CacheKeys |-> NoData]
    /\ gret = [op |-> "init"]
    /\ event_log = <<>>
    /\ eret = [op |-> "init"]

Billing ==
    \/ handleCheckoutCompleted("starter")
    \/ \E s \in StripeStatuses : handleSubscriptionChange(s, "starter")
    \/ handleSubscriptionDeleted
    \/ handlePaymentFailed

\* Spec: pairing and heartbeats of the devices of one account whose location is set up
Init ==
    /\ account \in Accounts
    /\ locations = [l \in LocIds |-> LocationRow(l, "starter", TRUE, TRUE)]
    /\ InitMemory

Next ==
    \/ Billing
    \/ \E d \in Devices, l \in LocIds : PairDevice(d, l)
    \/ \E d \in Devices, w \in BOOLEAN : HandleHeartbeat(d, w)
    \/ Tick /\ UNCHANGED enfVars

Spec == Init /\ [][Next /\ UNCHANGED <<rolVars, concVars, regVars, raceVars, cliVars, cfgVars, evtVars>>]_vars

\* SpecPair: pairing while the location service creates and changes the location
InitPair ==
    /\ account \in Accounts
    /\ locations = [l \in LocIds |-> NoLocation]
    /\ InitMemory

NextPair ==
    \/ Billing
    \/ \E l \in LocIds, tier \in PlanTiers : createLocation(l, tier)
    \/ \E l \in LocIds : activateLocationAfterPayment(l)
    \/ \E l \in LocIds, tier \in PlanTiers : updateLocationPlan(l, tier)
    \/ \E l \in LocIds : deactivateLocation(l)
    \/ \E d \in Devices, l \in LocIds : PairDevice(d, l)

SpecPair == InitPair /\ [][NextPair /\ UNCHANGED <<rolVars, concVars, regVars, raceVars, cliVars, cfgVars, evtVars>>]_vars

\* SpecGate: the location-scoped gate called on arbitrary accounts, locations and counts
GateAccounts ==
    [id : {"org1"}, billing_status : BillingStatuses,
     plan : [max_devices : {unlimited}]]

GateLocations ==
    [id : LocIds, active : BOOLEAN, setup_fee_paid : BOOLEAN,
     device_limit : 1..MaxCount]

EnforceLocationPairingCall(acc, location, currentDeviceCount) ==
    /\ Len(enforcementLogs) < MaxGateLog
    /\ LET r == enforceLocationPairing(acc, location, currentDeviceCount,
                                       enforcementLogs)
       IN  /\ enforcementLogs' = r.logs
           /\ ret' = [op |-> "enforceLocationPairing", account |-> acc,
                      location |-> location,
                      currentDeviceCount |-> currentDeviceCount,
                      allowed |-> r.allowed, code |-> r.code]
    /\ UNCHANGED <<account, locations, devices, deviceLastSeen, now>>

CanLocationAddDeviceCall(acc, location, currentDeviceCount) ==
    /\ Len(enforcementLogs) < MaxGateLog
    /\ LET r == canLocationAddDevice(acc, location, currentDeviceCount, enforcementLogs)
       IN  /\ enforcementLogs' = r.logs
           /\ ret' = [op |-> "canLocationAddDevice", account |-> acc,
                      location |-> location,
                      currentDeviceCount |-> currentDeviceCount,
                      result |-> r.result]
    /\ UNCHANGED <<account, locations, devices, deviceLastSeen, now>>

NextGate ==
    \/ \E acc \in GateAccounts, location \in GateLocations, cnt \in 0..MaxCount :
            EnforceLocationPairingCall(acc, location, cnt)
    \/ \E acc \in GateAccounts, location \in GateLocations, cnt \in 0..MaxCount :
            CanLocationAddDeviceCall(acc, location, cnt)

InitGate ==
    /\ account = [id |-> "org1", billing_status |-> "unpaid",
                  current_plan |-> "starter", plan |-> [max_devices |-> unlimited],
                  device_count |-> 0]
    /\ locations = [l \in LocIds |-> NoLocation]
    /\ InitMemory

SpecGate == InitGate /\ [][NextGate /\ UNCHANGED <<rolVars, concVars, regVars, raceVars, cliVars, cfgVars, evtVars>>]_vars

\* SpecLocGate: the location-scoped gate called on the rows the location
\* service has written, the organization's billing changing in between
EnforceStoredLocation(l, currentDeviceCount) ==
    /\ locations[l].exists
    /\ Len(enforcementLogs) < MaxGateLog
    /\ LET r == enforceLocationPairing(account, locations[l], currentDeviceCount,
                                       enforcementLogs)
       IN  /\ enforcementLogs' = r.logs
           /\ ret' = [op |-> "enforceStoredLocation", location |-> locations[l],
                      billing_status |-> account.billing_status,
                      allowed |-> r.allowed, code |-> r.code]
    /\ UNCHANGED <<account, locations, devices, deviceLastSeen, now>>

NextLocGate ==
    \/ \E l \in LocIds, tier \in PlanTiers : createLocation(l, tier)
    \/ \E l \in LocIds : activateLocationAfterPayment(l)
    \/ \E l \in LocIds, tier \in PlanTiers : updateLocationPlan(l, tier)
    \/ \E l \in LocIds : deactivateLocation(l)
    \/ handleCheckoutCompleted("starter")
    \/ handlePaymentFailed
    \/ \E l \in LocIds, cnt \in 0..MaxCount : EnforceStoredLocation(l, cnt)

SpecLocGate == InitGate /\ [][NextLocGate /\ UNCHANGED <<rolVars, concVars, regVars, raceVars, cliVars, cfgVars, evtVars>>]_vars

\* SpecRollout: the rollouts service, one call at a time, at one reading of the
\* clock (scheduled_at may lie before or after it).  A run follows the rollout an
\* administrator creates and the rollouts that rolling back derives from it.
InitRollout ==
    /\ account = [id |-> "org1", billing_status |-> "unpaid",
                  current_plan |-> "starter", plan |-> [max_devices |-> unlimited],
                  device_count |-> 0]
    /\ locations = [l \in LocIds |-> NoLocation]
    /\ InitMemory

NextRollout ==
    \/ \E targets \in TargetSets, p \in Payloads, at \in {Null, now, now + 1},
          ok \in BOOLEAN :
            /\ rollouts = EmptyDb.rollouts
            /\ CreateRollout("menu_activation", targets, p, at, TRUE, ok)
    \/ \E p \in Payloads :
            CreateRollout("menu_activation", {"L1"}, p, Null, FALSE, TRUE)
    \/ \E id \in RolloutIds : StartRollout(id)
    \/ \E id \in RolloutIds, l \in RolloutLocs, st \in ReportedStatuses :
            UpdateExecutionStatus(id, l, st,
                                  IF st = "failed" THEN "timeout" ELSE None)
    \/ \E id \in RolloutIds : CancelRollout(id)
    \/ \E id \in RolloutIds, ok \in BOOLEAN :
            /\ FreeIds(Db) \cap PairIds # {}
            /\ RollbackRollout(id, TRUE, ok)
    \/ \E id \in RolloutIds : RollbackRollout(id, FALSE, TRUE)
    \/ GetDueScheduledRollouts

SpecRollout == InitRollout /\ [][NextRollout /\ UNCHANGED <<enfVars, concVars, regVars, raceVars, cliVars, cfgVars, evtVars>>]_vars

\* Repeated rollbacks: a run follows one rollout, the store accepting every
\* insert, through start, its locations' completions, cancel and any number of
\* rollbackRollout calls on any rollout
NextRollback ==
    \/ \E targets \in TargetSets, p \in Payloads :
            /\ rollouts = EmptyDb.rollouts
            /\ CreateRollout("menu_activation", targets, p, Null, TRUE, TRUE)
    \/ \E id \in RolloutIds : StartRollout(id)
    \/ \E id \in RolloutIds, l \in RolloutLocs :
            UpdateExecutionStatus(id, l, "completed", None)
    \/ \E id \in RolloutIds : CancelRollout(id)
    \/ \E id \in RolloutIds : RollbackRollout(id, TRUE, TRUE)

SpecRollback == InitRollout /\ [][NextRollback /\ UNCHANGED <<enfVars, concVars, regVars, raceVars, cliVars, cfgVars, evtVars>>]_vars

\* A rollout that is created, started and reported on, and never cancelled or
\* rolled back, and whose locations keep reporting: while an execution of a rollout is
\* pending or in_progress, its location's completed or failed report is due
ReportTerminal(rolloutId, locationId) ==
    /\ executions[<<rolloutId, locationId>>].exists
    /\ executions[<<rolloutId, locationId>>].status \notin {"completed", "failed"}
    /\ \E st \in {"completed", "failed"} :
            UpdateExecutionStatus(rolloutId, locationId, st,
                                  IF st = "failed" THEN "timeout" ELSE None)
    /\ UNCHANGED <<enfVars, concVars, regVars, raceVars, cliVars, cfgVars, evtVars>>

NextReporting ==
    \/ \E targets \in TargetSets, p \in Payloads, ok \in BOOLEAN :
            /\ rollouts = EmptyDb.rollouts
            /\ CreateRollout("menu_activation", targets, p, Null, TRUE, ok)
    \/ \E id \in PairIds : StartRollout(id)
    \/ \E id \in PairIds, l \in RolloutLocs, st \in ReportedStatuses :
            UpdateExecutionStatus(id, l, st,
                                  IF st = "failed" THEN "timeout" ELSE None)
    \/ GetDueScheduledRollouts

\* every location agent eventually delivers the report that is due
SpecReporting ==
    /\ InitRollout
    /\ [][NextReporting /\ UNCHANGED <<enfVars, concVars, regVars, raceVars, cliVars, cfgVars, evtVars>>]_vars
    /\ \A id \in PairIds, l \in RolloutLocs : WF_vars(ReportTerminal(id, l))

(***************************************************************************)
(* SpecConc: updateExecutionStatus calls for the locations of one started  *)
(* rollout running concurrently.  A call is three requests to the store,   *)
(* each awaited: the update of the execution row, the select of the        *)
(* rollout's execution statuses, and the update of the rollout row.  A     *)
(* location reports in_progress at most once and a terminal status once;   *)
(* its calls follow one another, the calls of different locations          *)
(* interleave request by request.                                          *)
(***************************************************************************)
ConcId == NewId(EmptyDb)

ConcPayload == [content |-> "menuA", is_rollback |-> FALSE,
                original_rollout_id |-> Null]

ConcDb ==
    startRollout(createRollout(EmptyDb, "org1", "menu_activation", RolloutLocs,
                               ConcPayload, Null, TRUE, TRUE).db,
                 ConcId, 1).db

InitConc ==
    /\ account = [id |-> "org1", billing_status |-> "unpaid",
                  current_plan |-> "starter", plan |-> [max_devices |-> unlimited],
                  device_count |-> 0]
    /\ locations = [l \in LocIds |-> NoLocation]
    /\ devices = [d \in Devices |-> None]
    /\ enforcementLogs = <<>>
    /\ deviceLastSeen = [d \in Devices |-> 0]
    /\ now = 1
    /\ ret = [op |-> "init"]
    /\ rollouts = ConcDb.rollouts
    /\ executions = ConcDb.executions
    /\ rret = [op |-> "startRollout", threw |-> FALSE]
    /\ pc = [l \in RolloutLocs |-> "update"]
    /\ seen = [l \in RolloutLocs |-> {}]
    /\ registry = {}
    /\ shadow = {}
    /\ hret = [op |-> "init"]
    /\ hb = [c \in Callers |-> NoHeartbeat]
    /\ attempt = [d \in Devices |-> NoAttempt]
    /\ client = NewClient
    /\ cret = [op |-> "init", sent |-> FALSE]
    /\ configClient = NewConfigClient
    /\ lastFetched = [k \in CacheKeys |-> NoData]
    /\ gret = [op |-> "init"]
    /\ event_log = <<>>
    /\ eret = [op |-> "init"]

\* the statuses a location may report next
NextReports(l) ==
    IF executions[<<ConcId, l>>].status = "pending"
    THEN ReportedStatuses
    ELSE {"completed", "failed"}

\* lines 159-165: the update of the execution row
UpdateExecution(l, status) ==
    /\ pc[l] = "update"
    /\ status \in NextReports(l)
    /\ executions' = updateExecutionRow(
                         Db, ConcId, l, status,
                         IF status = "failed" THEN "timeout" ELSE None,
                         now).executions
    /\ pc' = [pc EXCEPT ![l] = "select"]
    /\ UNCHANGED <<rollouts, rret, seen, now>>

\* lines 179-182: the select of the completion check
SelectExecutions(l) ==
    /\ pc[l] = "select"
    /\ seen' = [seen EXCEPT ![l] = selectExecutionStatuses(Db, ConcId)]
    /\ pc' = [pc EXCEPT ![l] = "aggregate"]
    /\ UNCHANGED <<rollouts, executions, rret, now>>

\* lines 184-202: the decision on the selected statuses and the update of the
\* rollout row; the call returns, and the location's next report may follow
UpdateRollout(l) ==
    /\ pc[l] = "aggregate"
    /\ rollouts' = updateRolloutIfComplete(Db, ConcId, seen[l], now).rollouts
    /\ pc' = [pc EXCEPT ![l] =
                IF executions[<<ConcId, l>>].status \in {"completed", "failed"}
                THEN "done" ELSE "update"]
    /\ rret' = [op |-> "updateExecutionStatus", threw |-> FALSE,
                rollout_id |-> ConcId]
    /\ UNCHANGED <<executions, seen, now>>

NextConc ==
    \/ \E l \in RolloutLocs, st \in ReportedStatuses : UpdateExecution(l, st)
    \/ \E l \in RolloutLocs : SelectExecutions(l)
    \/ \E l \in RolloutLocs : UpdateRollout(l)
    \/ Tick /\ UNCHANGED <<rolVars, concVars>>

SpecConc == InitConc /\ [][NextConc /\ UNCHANGED <<enfVars, regVars, raceVars, cliVars, cfgVars, evtVars>>]_vars

(***************************************************************************)
(* SpecRegistry: heartbeats, sweeps and health summaries, one call at a    *)
(* time, as the clock advances                                             *)
(***************************************************************************)
InstanceIds == {None, "kds-L1", "i2"}
HeartbeatStatuses == {None, "degraded"}
Versions == {None, "v2"}

InitRegistry ==
    /\ account = [id |-> "org1", billing_status |-> "unpaid",
                  current_plan |-> "starter", plan |-> [max_devices |-> unlimited],
                  device_count |-> 0]
    /\ locations = [l \in LocIds |-> NoLocation]
    /\ InitMemory

NextRegistry ==
    \/ \E inst \in InstanceIds, st \in HeartbeatStatuses, v \in Versions :
            RecordHeartbeat("kds", "L1", inst, st, v)
    \/ RecordHeartbeat("kds", "L9", None, None, None)
    \/ \E inst \in InstanceIds, st \in HeartbeatStatuses, v \in Versions :
            PostHeartbeat(TRUE, "kds", "L1", inst, st, v)
    \/ PostHeartbeat(FALSE, "kds", "L1", None, None, None)
    \/ \E sv \in {None, "printer"} : PostHeartbeat(TRUE, sv, "L1", None, None, None)
    \/ GetServiceHealthSummary("org1")
    \/ UpdateStaleServices
    \/ RegTick

SpecRegistry ==
    InitRegistry /\ [][NextRegistry /\ UNCHANGED <<enfVars, rolVars, concVars, raceVars, cliVars, cfgVars, evtVars>>]_vars

(***************************************************************************)
(* Heartbeats in flight: a request reads the clock and builds its row, and *)
(* the store applies the upsert later as one statement; requests of        *)
(* different callers interleave between the two                            *)
(***************************************************************************)

BuildHeartbeat(c, service, locationId, instanceId, status, version) ==
    /\ hb[c] = NoHeartbeat
    /\ hb' = [hb EXCEPT ![c] = [held |-> TRUE,
                  row |-> heartbeatRow(service, locationId, instanceId, status, version, now)]]
    /\ UNCHANGED <<registry, shadow, hret, now>>

UpsertHeartbeat(c) ==
    /\ hb[c] # NoHeartbeat
    /\ registry' = upsert(registry, hb[c].row)
    /\ shadow' = upsert(shadow, hb[c].row)
    /\ hret' = [op |-> "recordHeartbeat", data |-> hb[c].row]
    /\ hb' = [hb EXCEPT ![c] = NoHeartbeat]
    /\ UNCHANGED now

NextHeartbeats ==
    \/ \E c \in Callers, st \in HeartbeatStatuses, v \in Versions :
            BuildHeartbeat(c, "kds", "L1", None, st, v)
    \/ \E c \in Callers : BuildHeartbeat(c, "kds", "L9", None, None, None)
    \/ \E c \in Callers : UpsertHeartbeat(c)
    \/ RegTick

SpecHeartbeats ==
    InitRegistry /\ [][NextHeartbeats /\ UNCHANGED <<enfVars, rolVars, concVars, raceVars, cliVars, cfgVars, evtVars>>]_vars

(***************************************************************************)
(* Pairing attempts in flight at one location.  An attempt reads the       *)
(* location's device count, passes the count it read to the gate, and on   *)
(* an allowed decision the device is bound to the location; the attempts   *)
(* of different devices interleave between these requests.                 *)
(***************************************************************************)
RaceDevices == {"d1", "d2", "d3", "d4"}
RaceLoc == "L1"

ReadDeviceCount(d) ==
    /\ attempt[d].at = "idle"
    /\ devices[d] = None
    /\ attempt' = [attempt EXCEPT ![d] =
                      [at |-> "counted", count |-> getLocationDeviceCount(RaceLoc)]]
    /\ UNCHANGED <<enfVars, now>>

GatePairing(d) ==
    /\ attempt[d].at = "counted"
    /\ Len(enforcementLogs) < MaxLog
    /\ LET r == enforceLocationPairing(account, locations[RaceLoc], attempt[d].count,
                                       enforcementLogs)
       IN  /\ enforcementLogs' = r.logs
           /\ ret' = [op |-> "enforceLocationPairing", device_id |-> d,
                      currentDeviceCount |-> attempt[d].count,
                      allowed |-> r.allowed, code |-> r.code]
           /\ attempt' = [attempt EXCEPT ![d].at =
                             IF r.allowed THEN "allowed" ELSE "blocked"]
    /\ UNCHANGED <<account, locations, devices, deviceLastSeen, now>>

\* the pairing is recorded: the device is bound to the location
RecordPairing(d) ==
    /\ attempt[d].at = "allowed"
    /\ devices' = [devices EXCEPT ![d] = RaceLoc]
    /\ attempt' = [attempt EXCEPT ![d].at = "paired"]
    /\ UNCHANGED <<account, locations, enforcementLogs, deviceLastSeen, ret, now>>

InitPairRace ==
    /\ account = [id |-> "org1", billing_status |-> "paid",
                  current_plan |-> "starter", plan |-> [max_devices |-> unlimited],
                  device_count |-> 0]
    /\ locations = [l \in LocIds |-> LocationRow(l, "starter", TRUE, TRUE)]
    /\ devices = [d \in RaceDevices |-> None]
    /\ enforcementLogs = <<>>
    /\ deviceLastSeen = [d \in RaceDevices |-> 0]
    /\ now = 1
    /\ ret = [op |-> "init"]
    /\ rollouts = EmptyDb.rollouts
    /\ executions = EmptyDb.executions
    /\ rret = [op |-> "init"]
    /\ pc = [l \in RolloutLocs |-> "done"]
    /\ seen = [l \in RolloutLocs |-> {}]
    /\ registry = {}
    /\ shadow = {}
    /\ hret = [op |-> "init"]
    /\ hb = [c \in Callers |-> NoHeartbeat]
    /\ attempt = [d \in RaceDevices |-> NoAttempt]
    /\ client = NewClient
    /\ cret = [op |-> "init", sent |-> FALSE]
    /\ configClient = NewConfigClient
    /\ lastFetched = [k \in CacheKeys |-> NoData]
    /\ gret = [op |-> "init"]
    /\ event_log = <<>>
    /\ eret = [op |-> "init"]

NextPairRace ==
    \/ \E d \in RaceDevices : ReadDeviceCount(d)
    \/ \E d \in RaceDevices : GatePairing(d)
    \/ \E d \in RaceDevices : RecordPairing(d)

SpecPairRace ==
    InitPairRace /\ [][NextPairRace /\ UNCHANGED <<rolVars, concVars, regVars, cliVars, cfgVars, evtVars>>]_vars

(***************************************************************************)
(* Pairing attempts at one location evaluated one at a time: the count is  *)
(* read, the gate is called on it and an allowed pairing is recorded       *)
(* before the next attempt reads the count.                                *)
(***************************************************************************)
PairAtLocation(d) ==
    /\ devices[d] = None
    /\ Len(enforcementLogs) < MaxLog
    /\ LET cnt == getLocationDeviceCount(RaceLoc)
           r == enforceLocationPairing(account, locations[RaceLoc], cnt, enforcementLogs)
       IN  /\ enforcementLogs' = r.logs
           /\ ret' = [op |-> "pairAtLocation", device_id |-> d,
                      currentDeviceCount |-> cnt,
                      allowed |-> r.allowed, code |-> r.code]
           /\ devices' = IF r.allowed THEN [devices EXCEPT ![d] = RaceLoc] ELSE devices
           /\ attempt' = [attempt EXCEPT ![d] =
                             [at |-> IF r.allowed THEN "paired" ELSE "idle", count |-> cnt]]
    /\ UNCHANGED <<account, locations, deviceLastSeen, now>>

NextPairSeq ==
    \/ \E d \in RaceDevices : PairAtLocation(d)
    \/ handlePaymentFailed /\ UNCHANGED attempt
    \/ handleCheckoutCompleted("starter") /\ UNCHANGED attempt

SpecPairSeq ==
    InitPairRace /\ [][NextPairSeq /\ UNCHANGED <<rolVars, concVars, regVars, cliVars, cfgVars, evtVars>>]_vars

(***************************************************************************)
(* The account-level gate called on arbitrary accounts: the billing gate,  *)
(* the pairing endpoint and its pre-flight check                           *)
(***************************************************************************)
UnlistedStatus == "suspended"

CallAccounts ==
    [id : {"org1"}, billing_status : BillingStatuses \cup {UnlistedStatus},
     plan : [max_devices : MaxDevicesValues], device_count : 0..MaxCount]

EnforceBillingForPairingCall(acc) ==
    /\ Len(enforcementLogs) < MaxGateLog
    /\ LET r == enforceBillingForPairing(acc, enforcementLogs)
       IN  /\ enforcementLogs' = r.logs
           /\ ret' = [op |-> "enforceBillingForPairing", account |-> acc,
                      allowed |-> r.allowed, error |-> r.error, code |-> r.code,
                      message |-> r.message]
    /\ UNCHANGED <<account, locations, devices, deviceLastSeen, now>>

PairDeviceCall(acc) ==
    /\ Len(enforcementLogs) < MaxGateLog
    /\ LET r == pairDevice([device_id |-> "d1", account_id |-> acc.id], acc,
                           enforcementLogs)
       IN  /\ enforcementLogs' = r.logs
           /\ ret' = [op |-> "pairDevice", account |-> acc, threw |-> r.threw,
                      success |-> r.success, error |-> r.error, code |-> r.code,
                      message |-> r.message, billing_status |-> r.billing_status,
                      help |-> r.help]
    /\ UNCHANGED <<account, locations, devices, deviceLastSeen, now>>

CanPairDeviceCall(acc) ==
    /\ LET r == canPairDevice(acc)
       IN  ret' = [op |-> "canPairDevice", account |-> acc, allowed |-> r.allowed,
                   code |-> r.code, billing_status |-> r.billing_status]
    /\ UNCHANGED <<account, locations, devices, enforcementLogs, deviceLastSeen, now>>

MapSubscriptionStatusCall(stripeStatus) ==
    /\ ret' = [op |-> "mapSubscriptionStatus", stripeStatus |-> stripeStatus,
               webhook |-> mapSubscriptionStatus(stripeStatus),
               billing |-> billingMapSubscriptionStatus(stripeStatus)]
    /\ UNCHANGED <<account, locations, devices, enforcementLogs, deviceLastSeen, now>>

GetAccountBillingStatusCall(subs) ==
    /\ LET r == getAccountBillingStatus(subs)
       IN  ret' = [op |-> "getAccountBillingStatus", subs |-> subs,
                   threw |-> r.threw, status |-> r.status]
    /\ UNCHANGED <<account, locations, devices, enforcementLogs, deviceLastSeen, now>>

NextCalls ==
    \/ \E st \in StripeStatuses \cup {"unrecognized"} : MapSubscriptionStatusCall(st)
    \/ \E subs \in SubscriptionLists : GetAccountBillingStatusCall(subs)
    \/ \E acc \in {a \in CallAccounts : a.device_count = 0} :
            EnforceBillingForPairingCall(acc)
    \/ \E acc \in CallAccounts : PairDeviceCall(acc)
    \/ \E acc \in CallAccounts : CanPairDeviceCall(acc)

SpecCalls == InitGate /\ [][NextCalls /\ UNCHANGED <<rolVars, concVars, regVars, raceVars, cliVars, cfgVars, evtVars>>]_vars

(***************************************************************************)
(* checkout.session.completed in the two webhook handlers.  A session is   *)
(* its metadata [organization_id, plan, type]; None stands for a key the   *)
(* checkout did not set.                                                   *)
(***************************************************************************)
CheckoutPlans == {"starter", "pro"}
SessionMetadata ==
    [organization_id : {None, "org1"}, plan : CheckoutPlans \cup {None},
     type : {None, "location_setup"}]

\* the metadata createLocationAddCheckout gives the setup-fee checkout
\* (new_location_count, which no handler writes to the organization, left out)
createLocationAddCheckout(org) ==
    [organization_id |-> org.id, plan |-> None, type |-> "location_setup"]

\* handleStripeWebhook on checkout.session.completed: handleCheckoutCompleted
handleStripeWebhook(acc, metadata) ==
    LET plan == IF metadata.plan = None THEN "starter" ELSE metadata.plan
    IN  IF metadata.organization_id = None
        THEN acc
        ELSE [acc EXCEPT !.billing_status = "paid", !.current_plan = plan]

\* the billing function's webhook on checkout.session.completed
billingWebhook(acc, metadata) ==
    LET plan == IF metadata.plan = None THEN "starter" ELSE metadata.plan
        checkoutType == metadata.type
    IN  IF checkoutType = "location_setup"
        THEN acc
        ELSE IF metadata.organization_id # None
             THEN [acc EXCEPT !.billing_status = "paid", !.current_plan = plan]
             ELSE acc

HandleStripeWebhook(metadata) ==
    /\ account' = handleStripeWebhook(account, metadata)
    /\ ret' = [op |-> "handleStripeWebhook", metadata |-> metadata]
    /\ UNCHANGED <<locations, devices, enforcementLogs, deviceLastSeen, now>>

BillingWebhook(metadata) ==
    /\ account' = billingWebhook(account, metadata)
    /\ ret' = [op |-> "billingWebhook", metadata |-> metadata]
    /\ UNCHANGED <<locations, devices, enforcementLogs, deviceLastSeen, now>>

\* a setup-fee checkout of the organization, completed and delivered to either
\* handler
LocationSetupCheckout ==
    LET metadata == createLocationAddCheckout(account)
    IN  HandleStripeWebhook(metadata) \/ BillingWebhook(metadata)

NextWebhook ==
    \/ \E metadata \in SessionMetadata : HandleStripeWebhook(metadata)
    \/ \E metadata \in SessionMetadata : BillingWebhook(metadata)
    \/ LocationSetupCheckout
    \/ \E st \in StripeStatuses, plan \in CheckoutPlans :
            handleSubscriptionChange(st, plan)
    \/ handleSubscriptionDeleted
    \/ handlePaymentFailed

SpecWebhook == InitGate /\ [][NextWebhook /\ UNCHANGED <<rolVars, concVars, regVars, raceVars, cliVars, cfgVars, evtVars>>]_vars

(***************************************************************************)
(* MOSMConfigClient (src/public/js/mosm-config-client.js).  What the       *)
(* network does with a request is the model's input: no connection, or a   *)
(* response with its status, the time it took and its body.                *)
(***************************************************************************)
CONFIG_FETCH_TIMEOUT == 10000
Configs == {"configA", "configB"}
InvalidJson == "<html>"
ConfigOutcomes ==
    {[kind |-> "network_error", status |-> 0, elapsed |-> 0, body |-> None],
     [kind |-> "response", status |-> 500, elapsed |-> 100, body |-> InvalidJson]}
        \cup [kind : {"response"}, status : {200}, elapsed : {100, 15000},
              body : Configs \cup {InvalidJson}]

\* _fetchFromMOSM: the timer aborts a request still pending after
\* CONFIG_FETCH_TIMEOUT; a status outside 200..299 and a body that is not JSON
\* make it throw
fetchFromMOSM(outcome) ==
    IF outcome.kind = "network_error"
    THEN [threw |-> TRUE, error |-> "Failed to fetch", data |-> None]
    ELSE IF outcome.elapsed >= CONFIG_FETCH_TIMEOUT
    THEN [threw |-> TRUE, error |-> "This operation was aborted", data |-> None]
    ELSE IF outcome.status \notin 200..299
    THEN [threw |-> TRUE, error |-> "HTTP", data |-> None]
    ELSE IF outcome.body = InvalidJson
    THEN [threw |-> TRUE, error |-> "Unexpected token", data |-> None]
    ELSE [threw |-> FALSE, error |-> None, data |-> outcome.body]

\* the entries of this._cache, null read as no entries
cacheEntries(cl) ==
    IF cl._cache.null THEN NoEntries ELSE cl._cache.entries

\* faulty variant: the memory cache is replaced by the one new entry
cacheConfig_Replace(cl, key, config) ==
    LET cacheEntry == [cached |-> TRUE, data |-> config]
    IN  [_cache |-> [null |-> FALSE,
                     entries |-> [NoEntries EXCEPT ![key] = cacheEntry]],
         localStorage |-> IF cl.localStorage.available
                          THEN [available |-> TRUE,
                                item |-> [NoEntries EXCEPT ![key] = cacheEntry]]
                          ELSE cl.localStorage]

\* _cacheConfig: the entry goes into the localStorage item, when there is a
\* localStorage, and into this._cache
cacheConfig(cl, key, config) ==
    LET cacheEntry == [cached |-> TRUE, data |-> config]
    IN  [_cache |-> [null |-> FALSE,
                     entries |-> [cacheEntries(cl) EXCEPT ![key] = cacheEntry]],
         localStorage |-> IF cl.localStorage.available
                          THEN [cl.localStorage EXCEPT !.item[key] = cacheEntry]
                          ELSE cl.localStorage]

\* _getCachedConfig: memory first, then localStorage, then null
getCachedConfig(cl, key) ==
    IF cacheEntries(cl)[key].cached
    THEN cacheEntries(cl)[key].data
    ELSE IF cl.localStorage.available /\ cl.localStorage.item[key].cached
    THEN cl.localStorage.item[key].data
    ELSE None

\* the body the four reads share: try { fetch, cache, return } catch { cached }
getConfig(cl, key, outcome) ==
    LET config == fetchFromMOSM(outcome)
    IN  IF ~config.threw
        THEN [client |-> cacheConfig(cl, key, config.data), threw |-> FALSE,
              fetched |-> TRUE, data |-> config.data]
        ELSE [client |-> cl, threw |-> FALSE, fetched |-> FALSE,
              data |-> getCachedConfig(cl, key)]

\* one of getLocationConfig, getScreenConfig, getFeatureFlags and
\* getMenuConfig('m1'), by its cache key
GetConfig(key, outcome) ==
    /\ LET r == getConfig(configClient, key, outcome)
       IN  /\ configClient' = r.client
           /\ lastFetched' = IF r.fetched
                             THEN [lastFetched EXCEPT ![key] =
                                      [cached |-> TRUE, data |-> r.data]]
                             ELSE lastFetched
           /\ gret' = [op |-> "getConfig", key |-> key, outcome |-> outcome,
                       threw |-> r.threw, fetched |-> r.fetched, data |-> r.data]
    /\ UNCHANGED now

\* a page of the browser is loaded and constructs its client: the memory cache
\* is new, the browser's localStorage is the one earlier pages wrote.  A run is
\* in a browser from its first step or not at all
PageLoad ==
    /\ configClient.localStorage.available \/ gret.op = "init"
    /\ configClient' = [_cache |-> NullCache,
                        localStorage |-> IF configClient.localStorage.available
                                         THEN configClient.localStorage
                                         ELSE EmptyStorage]
    /\ gret' = [op |-> "constructor"]
    /\ UNCHANGED <<lastFetched, now>>

NextConfig ==
    \/ \E outcome \in ConfigOutcomes : GetConfig("location", outcome)
    \/ \E outcome \in ConfigOutcomes : GetConfig("screens", outcome)
    \/ \E outcome \in ConfigOutcomes : GetConfig("features", outcome)
    \/ \E outcome \in ConfigOutcomes : GetConfig("menu_m1", outcome)
    \/ PageLoad

SpecConfig ==
    InitGate /\ [][NextConfig /\ UNCHANGED <<enfVars, rolVars, concVars, regVars, raceVars, cliVars, evtVars>>]_vars

(***************************************************************************)
(* POST /events of the events function (src/netlify/functions/             *)
(* mosm-events.js) over table event_log.  An entry of the body is          *)
(* [event_type, source_service, location_id], None standing for a field    *)
(* that is missing or falsy; the optional fields, which the handler copies *)
(* or defaults without looking at them, are left out.                      *)
(***************************************************************************)
MaxBatch == 2
\* validServices of the events function
validEventServices == {"modos-menus", "pos-lite", "kds", "mosm-cloud"}
EventEntries ==
    {[event_type |-> "order.created", source_service |-> "kds", location_id |-> "L1"],
     [event_type |-> "order.paid", source_service |-> "pos-lite", location_id |-> "L1"],
     [event_type |-> None, source_service |-> "kds", location_id |-> "L1"],
     [event_type |-> "order.created", source_service |-> None, location_id |-> "L1"],
     [event_type |-> "order.created", source_service |-> "kds", location_id |-> None],
     [event_type |-> "order.created", source_service |-> "printer", location_id |-> "L1"]}
Batches == UNION {[1..n -> EventEntries] : n \in 0..MaxBatch}

MissingRequiredFields == "Missing required fields: event_type, source_service, location_id"
InvalidService == "Invalid source_service"

RECURSIVE validateEvents_AnyService(_, _, _, _)
\* faulty variant: the source service is not looked at
validateEvents_AnyService(events, i, validEvents, errors) ==
    IF i > Len(events)
    THEN [validEvents |-> validEvents, errors |-> errors]
    ELSE LET e == events[i]
         IN  IF e.event_type = None \/ e.source_service = None \/ e.location_id = None
             THEN validateEvents_AnyService(events, i + 1, validEvents,
                      Append(errors, [index |-> i - 1, error |-> MissingRequiredFields]))
             ELSE validateEvents_AnyService(events, i + 1,
                      Append(validEvents, [event_type |-> e.event_type,
                                           source_service |-> e.source_service,
                                           location_id |-> e.location_id]),
                      errors)

RECURSIVE validateEvents(_, _, _, _)
\* the validation loop from its i-th round on (i counts from 1; the index an
\* error reports counts from 0)
validateEvents(events, i, validEvents, errors) ==
    IF i > Len(events)
    THEN [validEvents |-> validEvents, errors |-> errors]
    ELSE LET e == events[i]
         IN  IF e.event_type = None \/ e.source_service = None \/ e.location_id = None
             THEN validateEvents(events, i + 1, validEvents,
                      Append(errors, [index |-> i - 1, error |-> MissingRequiredFields]))
             ELSE IF e.source_service \notin validEventServices
             THEN validateEvents(events, i + 1, validEvents,
                      Append(errors, [index |-> i - 1, error |-> InvalidService]))
             ELSE validateEvents(events, i + 1,
                      Append(validEvents, [event_type |-> e.event_type,
                                           source_service |-> e.source_service,
                                           location_id |-> e.location_id]),
                      errors)

\* POST /events: keyValid is validateServiceKey's answer, insertOk whether the
\* store accepts the insert; the response's logged and errors are None where
\* the body does not carry them
postEvents(log, events, keyValid, insertOk) ==
    LET v == validateEvents(events, 1, <<>>, <<>>)
    IN  IF ~keyValid
        THEN [event_log |-> log, statusCode |-> 401,
              error |-> "Invalid service key", logged |-> None, errors |-> None]
        ELSE IF Len(v.validEvents) = 0
        THEN [event_log |-> log, statusCode |-> 400,
              error |-> "No valid events", logged |-> None, errors |-> v.errors]
        ELSE IF ~insertOk
        THEN [event_log |-> log, statusCode |-> 500,
              error |-> "Failed to log events", logged |-> None, errors |-> None]
        ELSE [event_log |-> log \o v.validEvents, statusCode |-> 201,
              error |-> None, logged |-> Len(v.validEvents), errors |-> v.errors]

PostEvents(events, keyValid, insertOk) ==
    /\ Len(event_log) + Len(events) <= MaxBatch + 1
    /\ LET r == postEvents(event_log, events, keyValid, insertOk)
       IN  /\ event_log' = r.event_log
           /\ eret' = [op |-> "postEvents", events |-> events,
                       keyValid |-> keyValid, insertOk |-> insertOk,
                       statusCode |-> r.statusCode, error |-> r.error,
                       logged |-> r.logged, errors |-> r.errors]
    /\ UNCHANGED now

NextEvents ==
    \/ \E events \in Batches : PostEvents(events, TRUE, TRUE)
    \/ \E events \in [1..1 -> EventEntries] : PostEvents(events, TRUE, FALSE)
    \/ \E events \in [1..1 -> EventEntries] : PostEvents(events, FALSE, TRUE)

SpecEvents ==
    InitGate /\ [][NextEvents /\ UNCHANGED <<enfVars, rolVars, concVars, regVars, raceVars, cliVars, cfgVars>>]_vars

(***************************************************************************)
(* SpecClient: one heartbeat client of a sending service against a network *)
(* that answers, refuses, fails or stalls                                  *)
(***************************************************************************)
NextClient ==
    \/ \E o \in FetchOutcomes : ClientStart(o)
    \/ ClientStop
    \/ \E st \in {"online", "degraded", "offline"}, o \in FetchOutcomes :
            ClientSetStatus(st, o)
    \/ \E o \in FetchOutcomes : ClientInterval(o)
    \/ Tick /\ UNCHANGED cliVars

SpecClient ==
    InitGate /\ [][NextClient /\ UNCHANGED <<enfVars, rolVars, concVars, regVars, raceVars, cfgVars, evtVars>>]_vars

(***************************************************************************)
(* Claims about the enforcement gate, pairing and heartbeats               *)
(***************************************************************************)

\* C1: a heartbeat of an already paired device is always acknowledged with an
\* empty command list, echoes the account's billing status as information only,
\* appends nothing to the enforcement log and leaves the device paired, whatever
\* the billing status is and after any sequence of billing-status changes.
C1_HeartbeatNeverEnforces ==
    [][\A d \in Devices, w \in BOOLEAN :
         (devices[d] # None /\ HandleHeartbeat(d, w)) =>
            /\ ret'.acknowledged
            /\ ret'.commands = <<>>
            /\ ret'.billing_status = (IF w THEN account.billing_status ELSE None)
            /\ enforcementLogs' = enforcementLogs
            /\ devices' = devices
            /\ account' = account]_vars

\* C1 witness: a paired device has sent a heartbeat while billing has lapsed
C1_Witness ==
    /\ ret.op = "handleHeartbeat"
    /\ devices[ret.device_id] # None
    /\ ret.billing_status = account.billing_status
    /\ ~isBillingActive(account.billing_status)
    /\ ret.acknowledged

\* C2: enforceLocationPairing returns the code of the first failing check in the
\* order billing, location active, setup fee, device limit, for every combination
\* of failing checks, and allows the pairing exactly when no check fails.
C2_GateOrder ==
    ret.op = "enforceLocationPairing" =>
        LET billingFails == ret.account.billing_status \notin {"paid", "trialing"}
            activeFails == ~ret.location.active
            feeFails == ~ret.location.setup_fee_paid
            limitFails == ret.currentDeviceCount >= ret.location.device_limit
        IN  /\ billingFails => ret.code = "BILLING_INACTIVE"
            /\ (~billingFails /\ activeFails) => ret.code = "LOCATION_INACTIVE"
            /\ (~billingFails /\ ~activeFails /\ feeFails)
                   => ret.code = "SETUP_FEE_NOT_PAID"
            /\ (~billingFails /\ ~activeFails /\ ~feeFails /\ limitFails)
                   => ret.code = "DEVICE_LIMIT_REACHED"
            /\ ret.allowed <=> ~(billingFails \/ activeFails \/ feeFails \/ limitFails)
            /\ ret.allowed => ret.code = None

\* C2 witness: all four checks fail at once and the answer is BILLING_INACTIVE
C2_Witness ==
    /\ ret.op = "enforceLocationPairing"
    /\ ret.account.billing_status = "unpaid"
    /\ ~ret.location.active
    /\ ~ret.location.setup_fee_paid
    /\ ret.currentDeviceCount >= ret.location.device_limit
    /\ ret.code = "BILLING_INACTIVE"

\* C3: every call of enforceLocationPairing appends exactly one entry to the
\* enforcement log, leaves the earlier entries as they were, and the new entry's
\* result is ALLOWED exactly when the call returns allowed = true.
C3_OneLogEntryPerCall ==
    [][(/\ ret'.op = "enforceLocationPairing"
        /\ EnforceLocationPairingCall(ret'.account, ret'.location,
                                      ret'.currentDeviceCount)) =>
            /\ Len(enforcementLogs') = Len(enforcementLogs) + 1
            /\ SubSeq(enforcementLogs', 1, Len(enforcementLogs)) = enforcementLogs
            /\ (enforcementLogs'[Len(enforcementLogs')].result = "ALLOWED")
                   <=> ret'.allowed
            /\ enforcementLogs'[Len(enforcementLogs')].result
                   \in {"ALLOWED", "BLOCKED"}]_vars

\* C3 witness: a blocked call and then an allowed call have each left one entry
C3_Witness ==
    /\ ret.op = "enforceLocationPairing"
    /\ ret.allowed
    /\ Len(enforcementLogs) = 2
    /\ enforcementLogs[1].result = "BLOCKED"
    /\ enforcementLogs[2].result = "ALLOWED"

\* C4: pairDevice returns success only when the account's billing is active, the
\* target location is active, its setup fee is paid and its device count was
\* below its device_limit.
C4_PairingPassesAllGates ==
    (ret.op = "pairDevice" /\ ret.success) =>
        /\ isBillingActive(ret.billing_status)
        /\ locations[ret.location_id].active
        /\ locations[ret.location_id].setup_fee_paid
        /\ getLocationDeviceCount(ret.location_id) - 1
               < locations[ret.location_id].device_limit

(***************************************************************************)
(* Claims about the rollouts service                                       *)
(***************************************************************************)
Terminal == {"completed", "failed"}

AllExecutionsTerminal(ex, id) ==
    \A l \in RolloutLocs : ex[<<id, l>>].exists => ex[<<id, l>>].status \in Terminal

SomeExecutionFailed(ex, id) ==
    \E l \in RolloutLocs : ex[<<id, l>>].exists /\ ex[<<id, l>>].status = "failed"

C6_TerminalOnlyAfterStart ==
    [][\A id \in RolloutIds :
         (rollouts[id].exists /\ rollouts[id].status \in {"pending", "scheduled"})
            => rollouts'[id].status \notin Terminal]_vars

\* C7: getDueScheduledRollouts returns exactly the rollouts in status scheduled
\* with scheduled_at <= now, and startRollout on such a rollout moves it from
\* scheduled to in_progress.
C7_DueRolloutsStart ==
    [][/\ (rret'.op = "getDueScheduledRollouts" /\ GetDueScheduledRollouts) =>
            rret'.data = {i \in RolloutIds : /\ rollouts[i].exists
                                             /\ rollouts[i].status = "scheduled"
                                             /\ rollouts[i].scheduled_at <= now}
       /\ \A id \in RolloutIds :
            (/\ rret'.op = "startRollout"
             /\ rollouts[id].exists
             /\ rollouts[id].status = "scheduled"
             /\ rollouts[id].scheduled_at <= now
             /\ StartRollout(id)) => rollouts'[id].status = "in_progress"]_vars

\* C8: startRollout changes a rollout's status to in_progress only when it is
\* pending; on a rollout that is in_progress, completed, failed or rolled_back it
\* reports an error and leaves the row (status and started_at) unchanged; and no
\* operation puts a rollout in_progress from any status but pending.
C8_StartOnlyPending ==
    [][/\ \A id \in RolloutIds :
            (rret'.op = "startRollout" /\ rollouts[id].exists /\ StartRollout(id)) =>
                IF rollouts[id].status = "pending"
                THEN /\ ~rret'.threw
                     /\ rollouts'[id].status = "in_progress"
                ELSE /\ rollouts[id].status \in
                            {"in_progress", "completed", "failed", "rolled_back"}
                        => /\ rret'.threw
                           /\ rollouts'[id].status = rollouts[id].status
                           /\ rollouts'[id].started_at = rollouts[id].started_at
       /\ \A id \in RolloutIds :
            (/\ rollouts[id].exists
             /\ rollouts'[id].status = "in_progress"
             /\ rollouts[id].status # "in_progress")
                => rollouts[id].status = "pending"]_vars

\* C8 witness: startRollout on a completed rollout has reported an error
C8_Witness ==
    /\ rret.op = "startRollout"
    /\ rret.threw
    /\ rollouts[1].exists
    /\ rollouts[1].status = "completed"
    /\ rollouts[1].started_at # Null

\* the rollout row inserted last
NewestId == CHOOSE i \in RolloutIds :
                /\ rollouts[i].exists
                /\ \A j \in RolloutIds : rollouts[j].exists => j <= i

\* C9: createRollout never returns a rollout as created while some of its
\* executions are missing: when it returns without error, every target location
\* of the new rollout has its execution row.
C9_CreateAllOrNothing ==
    (rret.op = "createRollout" /\ ~rret.threw) =>
        \A l \in rollouts[NewestId].target_locations :
            executions[<<NewestId, l>>].exists

C11_RollbackCreatesTaggedCopy ==
    [][\A id \in RolloutIds :
         (/\ rret'.op = "rollbackRollout"
          /\ rollouts[id].exists
          /\ rollouts[id].status = "completed"
          /\ RollbackRollout(id, TRUE, TRUE)) =>
            LET new == NewId(Db)
            IN  /\ ~rret'.threw
                /\ rollouts'[id] = [rollouts[id] EXCEPT !.status = "rolled_back"]
                /\ {j \in RolloutIds : rollouts'[j].exists /\ ~rollouts[j].exists}
                      = {new}
                /\ rollouts'[new].status = "pending"
                /\ rollouts'[new].organization_id = rollouts[id].organization_id
                /\ rollouts'[new].rollout_type = rollouts[id].rollout_type
                /\ rollouts'[new].target_locations = rollouts[id].target_locations
                /\ rollouts'[new].payload.is_rollback
                /\ rollouts'[new].payload.original_rollout_id = id
                /\ rollouts'[new].payload.content = rollouts[id].payload.content
                /\ \A l \in RolloutLocs :
                      /\ executions'[<<new, l>>].exists
                            <=> l \in rollouts[id].target_locations
                      /\ executions'[<<new, l>>].exists
                            => executions'[<<new, l>>].status = "pending"
                /\ \A j \in RolloutIds \ {id, new} : rollouts'[j] = rollouts[j]
                /\ \A j \in RolloutIds \ {new}, l \in RolloutLocs :
                      executions'[<<j, l>>] = executions[<<j, l>>]]_vars

\* C11 witness: a completed rollout over two locations has been rolled back and
\* its rollback rollout stands pending with its two pending executions
C11_Witness ==
    /\ rret.op = "rollbackRollout"
    /\ ~rret.threw
    /\ rollouts[1].exists
    /\ rollouts[1].status = "rolled_back"
    /\ rollouts[1].completed_at # Null
    /\ \A l \in RolloutLocs : /\ executions[<<1, l>>].exists
                              /\ executions[<<1, l>>].status = "completed"
    /\ rollouts[2].exists
    /\ rollouts[2].status = "pending"
    /\ rollouts[2].payload.is_rollback
    /\ rollouts[2].payload.original_rollout_id = 1
    /\ rollouts[2].target_locations = RolloutLocs
    /\ \A l \in RolloutLocs : /\ executions[<<2, l>>].exists
                              /\ executions[<<2, l>>].status = "pending"

\* C12: cancelRollout sets a rollout's status to rolled_back, and changes nothing
\* else, when the rollout is pending or scheduled; called on a rollout that is
\* in_progress, completed, failed or rolled_back it reports an error and changes
\* nothing in either table.
C12_CancelOnlyBeforeStart ==
    [][\A id \in RolloutIds :
         (rret'.op = "cancelRollout" /\ rollouts[id].exists /\ CancelRollout(id)) =>
            IF rollouts[id].status \in {"pending", "scheduled"}
            THEN /\ ~rret'.threw
                 /\ rollouts' = [rollouts EXCEPT ![id].status = "rolled_back"]
                 /\ executions' = executions
            ELSE /\ rret'.threw
                 /\ rollouts' = rollouts
                 /\ executions' = executions]_vars

\* C12 witness: cancelRollout on a rollout in progress has reported an error
C12_Witness ==
    /\ rret.op = "cancelRollout"
    /\ rret.threw
    /\ rollouts[1].exists
    /\ rollouts[1].status = "in_progress"
    /\ rollouts[1].started_at # Null

\* C13: a rollout whose target_locations list is empty has no executions, and
\* whatever calls of the service follow its creation its status is never
\* completed or failed.
C13_ZeroTargetNeverCompletes ==
    \A id \in RolloutIds :
        (rollouts[id].exists /\ rollouts[id].target_locations = {}) =>
            /\ ExecutionsOf(Db, id) = {}
            /\ rollouts[id].status \notin Terminal

\* C13 witness: a rollout with no targets was created and started, and an
\* updateExecutionStatus call for it has reported an error
C13_Witness ==
    /\ rollouts[1].exists
    /\ rollouts[1].target_locations = {}
    /\ rollouts[1].status = "in_progress"
    /\ ~rollouts[2].exists
    /\ rret.op = "updateExecutionStatus"
    /\ rret.threw

\* C14: createRollout, the store accepting its inserts, yields a rollout with
\* status scheduled when scheduledAt is given and pending otherwise, carrying the
\* given target locations and scheduled_at and not yet started or completed,
\* together with exactly one execution, in status pending, for each target
\* location and none for any other location; the other rows are untouched.
C14_CreateStatusAndExecutions ==
    [][\A targets \in TargetSets, p \in Payloads, at \in {Null, now, now + 1} :
         (/\ rret'.op = "createRollout"
          /\ CreateRollout("menu_activation", targets, p, at, TRUE, TRUE)) =>
            LET new == NewId(Db)
            IN  /\ ~rret'.threw
                /\ rollouts'[new].exists
                /\ rollouts'[new].status =
                      (IF at # Null THEN "scheduled" ELSE "pending")
                /\ rollouts'[new].scheduled_at = at
                /\ rollouts'[new].target_locations = targets
                /\ rollouts'[new].started_at = Null
                /\ rollouts'[new].completed_at = Null
                /\ \A l \in RolloutLocs :
                      /\ executions'[<<new, l>>].exists <=> l \in targets
                      /\ executions'[<<new, l>>].exists
                            => executions'[<<new, l>>].status = "pending"
                /\ \A j \in RolloutIds \ {new} :
                      /\ rollouts'[j] = rollouts[j]
                      /\ \A l \in RolloutLocs :
                            executions'[<<j, l>>] = executions[<<j, l>>]]_vars

\* C14 witness: a rollout scheduled for a later time has just been created over
\* two locations, each with its pending execution
C14_Witness ==
    /\ rret.op = "createRollout"
    /\ ~rret.threw
    /\ rollouts[1].exists
    /\ rollouts[1].status = "scheduled"
    /\ rollouts[1].scheduled_at > now
    /\ rollouts[1].target_locations = RolloutLocs
    /\ \A l \in RolloutLocs : /\ executions[<<1, l>>].exists
                              /\ executions[<<1, l>>].status = "pending"

(***************************************************************************)
(* Claims about the service registry                                       *)
(***************************************************************************)
\* the key a heartbeat with this instance_id writes at service kds, location L1
KeyOf(inst) ==
    [service_id |-> "kds", location_id |-> "L1",
     instance_id |-> IF inst = None THEN "kds-L1" ELSE inst]

\* what a heartbeat step must have done to the registry
HeartbeatApplied(inst, st, v) ==
    LET key == KeyOf(inst)
        entry == [service_id |-> "kds", location_id |-> "L1",
                  instance_id |-> key.instance_id,
                  status |-> IF st = None THEN "online" ELSE st,
                  version |-> v,
                  last_heartbeat |-> now * TickMs]
    IN  /\ {r \in registry' : sameKey(r, key)} = {entry}
        /\ {r \in registry' : ~sameKey(r, key)}
              = {r \in registry : ~sameKey(r, key)}

\* C15: the registry never holds two entries with the same (service, location,
\* instance) key, a heartbeat without instance_id writing the key
\* '<service>-<location>'; after a heartbeat, through recordHeartbeat or through
\* POST /heartbeat, the key's one entry carries that heartbeat's status (online
\* when omitted), its version and the time of that call, and the entries of the
\* other keys are as before.
C15_OneEntryPerKey ==
    /\ [](\A r \in registry, q \in registry : sameKey(r, q) => r = q)
    /\ [][\A inst \in InstanceIds, st \in HeartbeatStatuses, v \in Versions :
            /\ (hret'.op = "recordHeartbeat"
                /\ RecordHeartbeat("kds", "L1", inst, st, v))
                  => HeartbeatApplied(inst, st, v)
            /\ (hret'.op = "postHeartbeat"
                /\ PostHeartbeat(TRUE, "kds", "L1", inst, st, v))
                  => (hret'.statusCode = 200 /\ HeartbeatApplied(inst, st, v))]_vars

\* C15 witness: the default key, written at time 1 and again at time 2 by a
\* heartbeat that names no instance, has one entry stamped with time 2, next to
\* an entry of another instance last written at time 1
C15_Witness ==
    /\ hret.op \in {"recordHeartbeat", "postHeartbeat"}
    /\ now = 2
    /\ Cardinality(registry) = 2
    /\ \E r \in registry : /\ r.instance_id = "kds-L1"
                           /\ r.last_heartbeat = 2 * TickMs
                           /\ r = hret.data
    /\ \E r \in registry : /\ r.instance_id = "i2"
                           /\ r.last_heartbeat = 1 * TickMs

StaleAt(r, t) == t * TickMs - r.last_heartbeat > HEARTBEAT_TIMEOUT_MS

\* C16: getServiceHealthSummary counts under offline every entry of the
\* organization with now - last_heartbeat strictly greater than 120000 ms,
\* whatever its stored status and whether or not a sweep has marked it, and counts
\* every entry that is not stale under its stored status.
C16_SummaryRecomputesStaleness ==
    [][hret'.op = "getServiceHealthSummary" /\ GetServiceHealthSummary("org1") =>
         LET mine == {r \in registry : locationOrganization[r.location_id] = "org1"}
             sm == hret'.summary
         IN  /\ sm.total = Cardinality(mine)
             /\ sm.offline = Cardinality({r \in mine : StaleAt(r, now)
                                                       \/ r.status = "offline"})
             /\ sm.online = Cardinality({r \in mine : ~StaleAt(r, now)
                                                      /\ r.status = "online"})
             /\ sm.degraded = Cardinality({r \in mine : ~StaleAt(r, now)
                                                        /\ r.status = "degraded"})
             /\ sm.unknown = Cardinality({r \in mine : ~StaleAt(r, now)
                                                       /\ r.status = "unknown"})]_vars

\* C16 witness: no sweep has run, one entry stored online is past the threshold
\* and one stored degraded is exactly at it; the summary reports one offline and
\* one degraded
C16_Witness ==
    /\ hret.op = "getServiceHealthSummary"
    /\ registry = shadow
    /\ \E r \in registry : /\ r.status = "online"
                           /\ now * TickMs - r.last_heartbeat > HEARTBEAT_TIMEOUT_MS
    /\ \E r \in registry : /\ r.status = "degraded"
                           /\ now * TickMs - r.last_heartbeat = HEARTBEAT_TIMEOUT_MS
    /\ hret.summary.total = 2
    /\ hret.summary.offline = 1
    /\ hret.summary.degraded = 1

SweepMatches(r, t) ==
    r.status # "offline" /\ r.last_heartbeat < t * TickMs - HEARTBEAT_TIMEOUT_MS

\* C17: updateStaleServices sets status offline on exactly the entries whose
\* stored status is not offline and whose last_heartbeat is older than the
\* 2-minute threshold, returns those entries, leaves their other fields and every
\* other entry as they were, and a second run at the same reading of the clock
\* matches no entry and changes nothing.
C17_SweepExactAndIdempotent ==
    [][hret'.op = "updateStaleServices" /\ UpdateStaleServices =>
         /\ \A r \in registry :
               (IF SweepMatches(r, now)
                THEN [r EXCEPT !.status = "offline"] ELSE r) \in registry'
         /\ \A q \in registry' :
               \E r \in registry :
                  /\ sameKey(r, q)
                  /\ q.last_heartbeat = r.last_heartbeat
                  /\ q.version = r.version
                  /\ q.status = (IF SweepMatches(r, now) THEN "offline" ELSE r.status)
         /\ hret'.data = {q \in registry' : \E r \in registry :
                                sameKey(r, q) /\ SweepMatches(r, now)}
         /\ shadow' = shadow
         /\ updateStaleServices(registry', now').registry = registry'
         /\ updateStaleServices(registry', now').data = {}]_vars

\* C17 witness: a sweep has just marked one entry past the threshold offline and
\* left alone an entry exactly at the threshold
C17_Witness ==
    /\ hret.op = "updateStaleServices"
    /\ Cardinality(hret.data) = 1
    /\ \E r \in registry : /\ r.status = "offline"
                           /\ r \in hret.data
                           /\ now * TickMs - r.last_heartbeat > HEARTBEAT_TIMEOUT_MS
    /\ \E r \in registry : /\ r.status = "online"
                           /\ now * TickMs - r.last_heartbeat = HEARTBEAT_TIMEOUT_MS

\* C18: at every moment, through every order of heartbeats, sweeps and clock
\* advances, getServiceHealthSummary computed on the registry equals the one
\* computed on the registry that the same heartbeats leave when no sweep runs.
C18_SweepIsOnlyAnOptimization ==
    \A org \in {"org1", "org2"} :
        getServiceHealthSummary(registry, org, now)
            = getServiceHealthSummary(shadow, org, now)

\* C18 witness: a sweep has changed a stored status, a heartbeat has come in
\* since, and the summary just returned reports one entry offline, one online
C18_Witness ==
    /\ hret.op = "getServiceHealthSummary"
    /\ registry # shadow
    /\ hret.summary.offline = 1
    /\ hret.summary.online = 1
    /\ \E r \in registry : r.status = "online" /\ r.last_heartbeat = now * TickMs

\* C19: when heartbeats of several callers are in flight, each write leaves
\* under its key exactly the row that request built, in every field, whatever
\* entry was there and whichever request read the clock first, and leaves the
\* entries of every other key as they were.
C19_LastWriterWinsWholeRow ==
    [][\A c \in Callers :
         (hret'.op = "recordHeartbeat" /\ UpsertHeartbeat(c)) =>
            /\ hb[c].row \in registry'
            /\ \A q \in registry' : sameKey(q, hb[c].row) => q = hb[c].row
            /\ \A r \in registry : ~sameKey(r, hb[c].row) => r \in registry'
            /\ \A q \in registry' : ~sameKey(q, hb[c].row) => q \in registry]_vars

\* C19 witness: two heartbeats for the same key were built before either was
\* written; the later-built one has been written and the earlier-built one,
\* different in status, version and timestamp, is still to be written over it
C19_Witness ==
    \E c1, c2 \in Callers :
        /\ c1 # c2
        /\ hb[c1] = NoHeartbeat
        /\ hb[c2] # NoHeartbeat
        /\ hret.op = "recordHeartbeat"
        /\ hret.data \in registry
        /\ sameKey(hret.data, hb[c2].row)
        /\ hb[c2].row.last_heartbeat < hret.data.last_heartbeat
        /\ hb[c2].row.status # hret.data.status
        /\ hb[c2].row.version # hret.data.version
        /\ \E r \in registry : ~sameKey(r, hret.data)

\* C20: a pairing attempt is decided on the device count it read and on nothing
\* newer: it is allowed exactly when that count is below the location's
\* device_limit, as canAddDevice decides on the same count, and an allowed
\* attempt is recorded whatever the count has become, so that attempts which
\* read device_limit - 1 before either is recorded are all allowed and recorded.
C20_CountCheckNotSerialized ==
    [][\A d \in RaceDevices :
         /\ (ret'.op = "enforceLocationPairing" /\ GatePairing(d)) =>
               /\ ret'.allowed = (attempt[d].count < locations[RaceLoc].device_limit)
               /\ ret'.allowed = canAddDevice(locations[RaceLoc], attempt[d].count).allowed
               /\ devices' = devices
         /\ (attempt[d].at = "allowed" /\ RecordPairing(d)) =>
               /\ devices'[d] = RaceLoc
               /\ \A e \in RaceDevices \ {d} : devices'[e] = devices[e]
               /\ getLocationDeviceCount(RaceLoc)' = getLocationDeviceCount(RaceLoc) + 1]_vars

\* C20 witness: two attempts that both read device_limit - 1 have both been
\* allowed and recorded, and the location holds more devices than its limit
C20_Witness ==
    /\ getLocationDeviceCount(RaceLoc) > locations[RaceLoc].device_limit
    /\ \E d, e \in RaceDevices :
          /\ d # e
          /\ attempt[d].at = "paired" /\ attempt[e].at = "paired"
          /\ attempt[d].count = locations[RaceLoc].device_limit - 1
          /\ attempt[e].count = locations[RaceLoc].device_limit - 1

C22_BillingGateExact ==
    [][ret'.op = "enforceBillingForPairing"
         /\ EnforceBillingForPairingCall(ret'.account) =>
           /\ ret'.allowed = (ret'.account.billing_status \in {"paid", "trialing"})
           /\ ~ret'.allowed =>
                 /\ ret'.error = "BILLING_INACTIVE"
                 /\ ret'.code = "BILLING_INACTIVE"
                 /\ ret'.message \notin {None, ""}]_vars

\* C22 witness: the gate has just rejected an account whose status is in no list
C22_Witness ==
    /\ ret.op = "enforceBillingForPairing"
    /\ ret.account.billing_status = UnlistedStatus
    /\ ~ret.allowed
    /\ ret.code = "BILLING_INACTIVE"

PolicyCodes == {"BILLING_INACTIVE", "DEVICE_LIMIT_EXCEEDED", "LOCATION_INACTIVE",
                "SETUP_FEE_NOT_PAID"}

\* C23: pairDevice never throws for a policy violation: for every account the
\* call returns, and a rejection is the object success = false with a code of
\* the documented set, a message, the account's billing_status and a help hint,
\* also when enforceDeviceLimit threw.
C23_PairDeviceNeverThrows ==
    [][ret'.op = "pairDevice" /\ PairDeviceCall(ret'.account) =>
           /\ ~ret'.threw
           /\ ~ret'.success =>
                 /\ ret'.code \in PolicyCodes
                 /\ ret'.error = ret'.code
                 /\ ret'.message \notin {None, ""}
                 /\ ret'.billing_status = ret'.account.billing_status
                 /\ ret'.help \notin {None, ""}]_vars

\* C23 witness: an account with active billing at its device limit has been
\* refused; enforceDeviceLimit logged its BLOCKED entry and threw, the call returned
C23_Witness ==
    /\ ret.op = "pairDevice"
    /\ isBillingActive(ret.account.billing_status)
    /\ ~ret.success
    /\ ret.code = "DEVICE_LIMIT_EXCEEDED"
    /\ enforceDeviceLimit(ret.account, ret.account.device_count + 1, <<>>).threw
    /\ \E i \in 1..Len(enforcementLogs) :
          /\ enforcementLogs[i].action = "CHECK_DEVICE_LIMIT"
          /\ enforcementLogs[i].result = "BLOCKED"

\* C24: canLocationAddDevice answers as enforceLocationPairing decides on the
\* same account, location and count, and a call leaves the enforcement log
\* unchanged.
C24_PreflightWritesNoLog ==
    [][ret'.op = "canLocationAddDevice"
         /\ CanLocationAddDeviceCall(ret'.account, ret'.location, ret'.currentDeviceCount) =>
           /\ ret'.result = enforceLocationPairing(ret'.account, ret'.location,
                                                   ret'.currentDeviceCount, <<>>).allowed
           /\ enforcementLogs' = enforcementLogs]_vars

\* C25: for every account, canPairDevice(account).allowed equals
\* pairDevice(req, account).success, and on rejection both report the same code;
\* canPairDevice leaves the enforcement log as it was.
C25_PreflightAgreesWithPairing ==
    [][/\ (ret'.op = "pairDevice" /\ PairDeviceCall(ret'.account)) =>
             /\ ret'.success = canPairDevice(ret'.account).allowed
             /\ ~ret'.success => ret'.code = canPairDevice(ret'.account).code
       /\ (ret'.op = "canPairDevice" /\ CanPairDeviceCall(ret'.account)) =>
             /\ ret'.allowed = pairDevice([device_id |-> "d1", account_id |-> "org1"],
                                          ret'.account, <<>>).success
             /\ ~ret'.allowed =>
                   ret'.code = pairDevice([device_id |-> "d1", account_id |-> "org1"],
                                          ret'.account, <<>>).code
             /\ enforcementLogs' = enforcementLogs]_vars

\* C25 witness: the pre-flight check has refused a paid account standing exactly
\* at its device limit
C25_Witness ==
    /\ ret.op = "canPairDevice"
    /\ ret.account.billing_status = "paid"
    /\ ret.account.plan.max_devices # unlimited
    /\ ret.account.device_count = ret.account.plan.max_devices
    /\ ~ret.allowed
    /\ ret.code = "DEVICE_LIMIT_EXCEEDED"

ResolverContract(stripeStatus) ==
    IF stripeStatus = "active" THEN "paid"
    ELSE IF stripeStatus = "trialing" THEN "trialing"
    ELSE IF stripeStatus = "past_due" THEN "past_due"
    ELSE "unpaid"

\* C26: mapSubscriptionStatus of the webhook handler and of the billing function
\* both map active to paid, trialing to trialing, past_due to past_due and every
\* other state, recognized or not, to unpaid; the result depends on the input
\* alone and a call changes nothing.
C26_MapSubscriptionStatus ==
    [][ret'.op = "mapSubscriptionStatus"
         /\ MapSubscriptionStatusCall(ret'.stripeStatus) =>
           /\ ret'.webhook = ResolverContract(ret'.stripeStatus)
           /\ ret'.billing = ResolverContract(ret'.stripeStatus)
           /\ ret'.webhook = mapSubscriptionStatus(ret'.stripeStatus)
           /\ ret'.webhook \in BillingStatuses
           /\ <<account, locations, devices, enforcementLogs, deviceLastSeen>>'
                 = <<account, locations, devices, enforcementLogs, deviceLastSeen>>]_vars

\* C26 witness: after other calls have written the log, both functions have
\* mapped a state their switch does not list to unpaid
C26_Witness ==
    /\ ret.op = "mapSubscriptionStatus"
    /\ ret.stripeStatus = "unrecognized"
    /\ ret.webhook = "unpaid"
    /\ ret.billing = "unpaid"
    /\ Len(enforcementLogs) > 0

\* C27: for the customer's latest subscription getAccountBillingStatus returns
\* paid for active, trialing for trialing, past_due for past_due and unpaid for
\* every other provider state.
C27_StatusFollowsResolverContract ==
    [][(/\ ret'.op = "getAccountBillingStatus"
        /\ GetAccountBillingStatusCall(ret'.subs)
        /\ ~ret'.subs.threw
        /\ Len(ret'.subs.data) > 0) =>
           ret'.status = ResolverContract(ret'.subs.data[1].status)]_vars

\* C28: when the provider lookup throws or the customer has no subscription,
\* getAccountBillingStatus returns unpaid and does not throw, and the status it
\* returns is not one the pairing gate accepts.
C28_ResolutionFailsClosed ==
    [][(/\ ret'.op = "getAccountBillingStatus"
        /\ GetAccountBillingStatusCall(ret'.subs)
        /\ (ret'.subs.threw \/ Len(ret'.subs.data) = 0)) =>
           /\ ~ret'.threw
           /\ ret'.status = "unpaid"
           /\ ~isBillingActive(ret'.status)
           /\ ~enforceBillingForPairing([id |-> "org1", billing_status |-> ret'.status],
                                        <<>>).allowed]_vars

\* C28 witness: the provider lookup threw and the call returned unpaid
C28_Witness ==
    /\ ret.op = "getAccountBillingStatus"
    /\ ret.subs.threw
    /\ ~ret.threw
    /\ ret.status = "unpaid"

IsActive(locs, l) == locs[l].exists /\ locs[l].active

\* C29: after any sequence of createLocation, activateLocationAfterPayment,
\* updateLocationPlan and deactivateLocation calls every active location has its
\* setup fee paid; a location is created inactive with the fee unpaid, and a
\* location that was not active is active after a step only when the step is
\* activateLocationAfterPayment.
C29_ActiveImpliesSetupFeePaid ==
    /\ [](\A l \in LocIds : IsActive(locations, l) => locations[l].setup_fee_paid)
    /\ [][\A l \in LocIds :
            /\ (~locations[l].exists /\ locations'[l].exists) =>
                  /\ ret'.op = "createLocation"
                  /\ ~locations'[l].active
                  /\ ~locations'[l].setup_fee_paid
            /\ (~IsActive(locations, l) /\ IsActive(locations', l)) =>
                  ret'.op = "activateLocationAfterPayment"]_vars

\* C29 witness: a location that was created and moved to the pro plan has just
\* been activated after payment
C29_Witness ==
    \E l \in LocIds :
        /\ ret.op = "activateLocationAfterPayment"
        /\ ~ret.error
        /\ IsActive(locations, l)
        /\ locations[l].setup_fee_paid
        /\ locations[l].plan_tier = "pro"

HeartbeatFailed(outcome) ==
    \/ outcome.kind = "network_error"
    \/ outcome.elapsed >= HEARTBEAT_TIMEOUT
    \/ outcome.status \notin 200..299

C36_LastHeartbeatNeverDecreases ==
    [][\A r \in registry, q \in registry' :
          sameKey(r, q) => q.last_heartbeat >= r.last_heartbeat]_vars

\* C36 amended: the last_heartbeat stored under a key after a write is the
\* timestamp the writing request took when it built its row; it is at least
\* the value stored before when that request took its timestamp no earlier
\* than the stored one, and lower than it when the request took its timestamp
\* earlier and was written later.
C36_LastHeartbeatIsWritersTimestamp ==
    [][\A c \in Callers :
         (hret'.op = "recordHeartbeat" /\ UpsertHeartbeat(c)) =>
            \A q \in registry' : sameKey(q, hb[c].row) =>
               /\ q.last_heartbeat = hb[c].row.last_heartbeat
               /\ \A r \in registry : sameKey(r, q) =>
                     /\ hb[c].row.last_heartbeat >= r.last_heartbeat
                            => q.last_heartbeat >= r.last_heartbeat
                     /\ hb[c].row.last_heartbeat < r.last_heartbeat
                            => q.last_heartbeat < r.last_heartbeat]_vars

\* C36 witness: a heartbeat built after a clock tick has been written under a
\* key, and a request of the other caller that took its timestamp before the
\* tick holds a row for the same key, still to be written
C36_Witness ==
    \E c \in Callers :
        /\ hb[c] # NoHeartbeat
        /\ hret.op = "recordHeartbeat"
        /\ hret.data \in registry
        /\ sameKey(hret.data, hb[c].row)
        /\ hret.data.last_heartbeat = DateNow(now)
        /\ hb[c].row.last_heartbeat < DateNow(now)

\* C34: rolled_back is final: once a rollout's status is rolled_back, through
\* cancelRollout or rollbackRollout, no later call of the service changes it,
\* an updateExecutionStatus that completes the rollout's last execution included.
C34_RolledBackIsFinal ==
    [][\A id \in RolloutIds :
          (rollouts[id].exists /\ rollouts[id].status = "rolled_back") =>
              rollouts'[id].status = "rolled_back"]_vars

\* C35: whenever a rollout's status is completed or failed, every one of its
\* executions is completed or failed and the status is failed exactly when some
\* execution is failed, whatever updateExecutionStatus calls came before,
\* those that move an execution back to in_progress included.
C35_TerminalStatusMatchesExecutions ==
    \A id \in RolloutIds :
        (rollouts[id].exists /\ rollouts[id].status \in Terminal) =>
            /\ AllExecutionsTerminal(executions, id)
            /\ (rollouts[id].status = "failed") <=> SomeExecutionFailed(executions, id)

\* the rollouts whose payload is tagged as the rollback of rollout id
RollbacksOf(id) ==
    {j \in RolloutIds : /\ rollouts[j].exists
                        /\ rollouts[j].payload.is_rollback
                        /\ rollouts[j].payload.original_rollout_id = id}

\* C39: each rollout has at most one rollback rollout referencing it, so that
\* a rollbackRollout call on a rollout that is already rolled_back, a second
\* call on the same rollout included, creates no further rollout.
C39_AtMostOneRollback ==
    \A id \in RolloutIds : Cardinality(RollbacksOf(id)) <= 1

\* C37: a checkout.session.completed event of a setup-fee-only checkout
\* (metadata type location_setup) leaves the organization's billing_status and
\* current_plan as they were, in the billing function's webhook and in
\* handleStripeWebhook alike.
C37_SetupFeeCheckoutLeavesBilling ==
    [][(/\ ret'.op \in {"handleStripeWebhook", "billingWebhook"}
        /\ ret'.metadata.type = "location_setup"
        /\ \/ HandleStripeWebhook(ret'.metadata)
           \/ BillingWebhook(ret'.metadata)) =>
          /\ account'.billing_status = account.billing_status
          /\ account'.current_plan = account.current_plan]_vars

\* C38: on a location row as the location service's operations leave it,
\* enforceLocationPairing never returns SETUP_FEE_NOT_PAID: a location whose
\* setup fee is unpaid is rejected as BILLING_INACTIVE or as LOCATION_INACTIVE.
C38_SetupFeeCodeUnreachable ==
    ret.op = "enforceStoredLocation" =>
        /\ ret.code # "SETUP_FEE_NOT_PAID"
        /\ ~ret.location.setup_fee_paid =>
              /\ ~ret.allowed
              /\ ret.code = (IF isBillingActive(ret.billing_status)
                             THEN "LOCATION_INACTIVE" ELSE "BILLING_INACTIVE")

\* C38 witness: with billing paid, the gate has just rejected a location whose
\* setup fee is unpaid, as LOCATION_INACTIVE
C38_Witness ==
    /\ ret.op = "enforceStoredLocation"
    /\ ret.billing_status = "paid"
    /\ ~ret.location.setup_fee_paid
    /\ ~ret.location.active
    /\ ret.code = "LOCATION_INACTIVE"

ValidEntry(e) ==
    /\ e.event_type # None
    /\ e.source_service # None
    /\ e.location_id # None
    /\ e.source_service \in {"modos-menus", "pos-lite", "kds", "mosm-cloud"}

\* the rows a request stored: what it appended to event_log
StoredBy(before, after) == SubSeq(after, Len(before) + 1, Len(after))

Started(id) ==
    /\ rollouts[id].exists
    /\ rollouts[id].status = "in_progress"
    /\ rollouts[id].target_locations # {}

\* the execution of (id, l), if there is one, is completed or failed
ExecutionDone(id, l) ==
    executions[<<id, l>>].exists => executions[<<id, l>>].status \in Terminal

RolloutFinished(id) ==
    rollouts[id].exists /\ rollouts[id].status \in Terminal

\* C33: a started rollout with at least one target location, every one of whose
\* executions ends up completed or failed for good, eventually has status
\* completed or failed.
C33_StartedRolloutFinishes ==
    \A id \in PairIds :
        [](Started(id) =>
              ((\A l \in RolloutLocs : <>[]ExecutionDone(id, l))
                  => <>RolloutFinished(id)))

====
